---- MODULE Spec2Model ----
(***************************************************************************)
(* Friegent: the in-memory NandaHub (agent directory + per-agent inboxes), *)
(* the recommendation worker that drains one agent's inbox, and the        *)
(* auto_search orchestration that fans a request out to helper agents and  *)
(* merges their replies.                                                   *)
(*                                                                         *)
(* Sources: src/nanda_hub.py, src/api_server_llm_a2a_auto_db_ec2.py,       *)
(* src/freigent_real_json.py.                                              *)
(***************************************************************************)
EXTENDS Integers, Sequences, FiniteSets, TLC

VARIABLES
    agents,     \* NandaHub.agents: insertion-ordered dict, kept as the sequence of its values
    inboxes,    \* NandaHub.inboxes: function from the ids that have an inbox to message sequences
    nextId,     \* stand-in for uuid.uuid4(): the next fresh message_id
    profiles,   \* SQLite table profiles: function from the user_ids that have a row to the row
    dbAgents,   \* SQLite table agents: the agent_ids with a row (all rows have type 'freigent')
    ret,        \* what the last operation returned to its caller
    run,        \* the auto_search call in progress: its position and its local variables
    threads,    \* the other request threads of the pool: each one's position and local
                \* variables (empty where requests are served one at a time)
    hist        \* history of the operations clients call on the hub itself (not program
                \* state; kept by SpecHub and SpecThreads, left as it is by the others)

vars == <<agents, inboxes, nextId, profiles, dbAgents, ret, run, threads, hist>>

----------------------------------------------------------------------------
(* Bounds of the model *)

\* external a2a sends are enabled while fewer than MaxMsgs ids have been issued
MaxMsgs == 3

AgentIds == {"u1", "u2", "u3"}
HubIds == {"u1", "u2"}
Queries == {"Q"}

\* the (agent_type, display_name, personality_summary) triples callers register with
RegFields == { <<"freigent", "n1", "">>, <<"other", "n2", "p2">> }

----------------------------------------------------------------------------
(* Python dict helpers *)

\* dict.get(key, default)
Get(d, key, default) == IF key \in DOMAIN d THEN d[key] ELSE default

\* d[key] = value on a function that models a dict
Put(d, key, value) == [k \in DOMAIN d \cup {key} |-> IF k = key THEN value ELSE d[k]]

Range(s) == { s[i] : i \in DOMAIN s }

----------------------------------------------------------------------------
(* Python values. A value that came in as JSON is written as follows: a     *)
(* string, an integer and a boolean as themselves; an array as the sequence *)
(* of its items; an object, a Python dict, as the set that holds one        *)
(* element, the sequence of the dict's <<key, value>> pairs in the order in *)
(* which the keys were inserted (for a parsed JSON text, the order of the   *)
(* text), so that any string is a key and the order that str() writes is    *)
(* kept; null, Python's None, as the set {"None"}. No array, string or      *)
(* number is a set, and no pair list is the string "None", so the kinds     *)
(* stand apart. Every dict the program builds is written the same way. A    *)
(* TLA+ record stands for an object of the program that is no dict (a       *)
(* registration, a message, a response model, an exception). A number with  *)
(* a fraction has no counterpart here, and a string is made of printable    *)
(* characters and of the characters "\t", "\n", "\f" and "\r".              *)

\* Python's None
None == {"None"}

\* the dict with the entries items, a sequence of <<key, value>> pairs
Dict(items) == {items}

\* the dict {}
EmptyDict == Dict(<<>>)

\* list(d.items())
Items(d) == CHOOSE items \in d : TRUE

\* the characters a written number can start with, besides the sign
Digits == {"0", "1", "2", "3", "4", "5", "6", "7", "8", "9"}

\* the type of the Python value v, read off the way the value is written (values
\* of different kinds cannot be compared with =)
JsonKind(v) ==
    LET s == ToString(v)
        c == Head(s)
    IN  CASE c = "\"" -> "str"
          [] c = "<" -> "list"
          [] c = "{" -> IF s = "{\"None\"}" THEN "null" ELSE "dict"
          [] c \in {"T", "F"} -> "bool"
          [] c \in Digits \cup {"-"} -> "int"
          [] OTHER -> "object"

\* v is None
IsNone(v) == JsonKind(v) = "null"

\* isinstance(x, dict), also what pydantic demands of a Dict[str, Any] field
IsDict(x) == JsonKind(x) = "dict"

\* isinstance(x, list)
IsList(x) == JsonKind(x) = "list"

\* a is b, for values that were passed on as they are
SameValue(a, b) == ToString(a) = ToString(b)

\* v == s for a string s: no value of another kind equals a string
EqualsStr(v, s) == IF JsonKind(v) = "str" THEN v = s ELSE FALSE

\* the entries dict d holds under key (none or one: a dict holds a key once)
Entries(d, key) == SelectSeq(Items(d), LAMBDA entry : entry[1] = key)

\* key in d
HasKey(d, key) == Entries(d, key) # <<>>

\* d.get(key, default)
JsonGet(d, key, default) ==
    LET entries == Entries(d, key) IN
    IF entries = <<>> THEN default ELSE entries[1][2]

\* d.get(key), which is d[key] for a key that d holds
Item(d, key) == JsonGet(d, key, None)

\* character c occurs in string s
RECURSIVE Contains(_, _)
Contains(s, c) ==
    IF s = "" THEN FALSE
    ELSE IF SubSeq(s, 1, 1) = c THEN TRUE
    ELSE Contains(SubSeq(s, 2, Len(s)), c)

\* the characters of s as repr() writes them between quotes q: the backslash and
\* the quote behind a backslash, a tab, a line feed and a carriage return as \t,
\* \n and \r, a form feed by its code, a printable character as it is
RECURSIVE PyEscape(_, _)
PyEscape(s, q) ==
    IF s = "" THEN ""
    ELSE LET c == SubSeq(s, 1, 1) IN
         (CASE c = "\\" -> "\\\\"
            [] c = q -> "\\" \o q
            [] c = "\n" -> "\\n"
            [] c = "\r" -> "\\r"
            [] c = "\t" -> "\\t"
            [] c = "\f" -> "\\x0c"
            [] OTHER -> c) \o PyEscape(SubSeq(s, 2, Len(s)), q)

\* repr(s) of a string: in single quotes, in double quotes if s holds a single
\* quote and no double quote
PyReprStr(s) ==
    LET q == IF Contains(s, "'") /\ ~Contains(s, "\"") THEN "\"" ELSE "'"
    IN  q \o PyEscape(s, q) \o q

\* repr(v): 5, True, None, 'a', ['a', 5], {'k': 'a'}; the entries of a dict in
\* the order of insertion
RECURSIVE PyRepr(_)
RECURSIVE PyItems(_)
RECURSIVE PyEntries(_)
PyItems(s) ==
    IF Len(s) = 0 THEN ""
    ELSE PyRepr(Head(s)) \o (IF Len(s) > 1 THEN ", " \o PyItems(Tail(s)) ELSE "")

PyEntries(items) ==
    IF Len(items) = 0 THEN ""
    ELSE PyReprStr(Head(items)[1]) \o ": " \o PyRepr(Head(items)[2])
            \o (IF Len(items) > 1 THEN ", " \o PyEntries(Tail(items)) ELSE "")

PyRepr(v) ==
    LET kind == JsonKind(v) IN
    CASE kind = "str" -> PyReprStr(v)
      [] kind = "null" -> "None"
      [] kind = "bool" -> IF v THEN "True" ELSE "False"
      [] kind = "list" -> "[" \o PyItems(v) \o "]"
      [] kind = "dict" -> "{" \o PyEntries(Items(v)) \o "}"
      [] kind = "int" -> ToString(v)

\* str(v), as an f-string formats v: a string is itself, any other value is
\* written as repr() writes it
PyStr(v) == IF JsonKind(v) = "str" THEN v ELSE PyRepr(v)

----------------------------------------------------------------------------
(* nanda_hub.py: data model *)

AgentRegistration(agent_id, agent_type, display_name, personality_summary) ==
    [agent_id |-> agent_id, agent_type |-> agent_type,
     display_name |-> display_name, personality_summary |-> personality_summary]

A2AMessage(message_id, from_agent_id, to_agent_id, payload) ==
    [message_id |-> message_id, from_agent_id |-> from_agent_id,
     to_agent_id |-> to_agent_id, payload |-> payload]

(* nanda_hub.py: NandaHub, as functions of the hub's two dicts *)

\* (mutant) a list append instead of a dict store: a second entry for the same id
AgentsPut_append(ags, reg) == Append(ags, reg)

\* (mutant) a registration of an existing id deletes the key first: it moves to the end
AgentsPut_moveToEnd(ags, reg) ==
    Append(SelectSeq(ags, LAMBDA r : r.agent_id # reg.agent_id), reg)

\* self.agents[agent_id] = reg: an existing key keeps its position, a new key goes last
AgentsPut(ags, reg) ==
    IF \E i \in DOMAIN ags : ags[i].agent_id = reg.agent_id
    THEN [i \in DOMAIN ags |-> IF ags[i].agent_id = reg.agent_id THEN reg ELSE ags[i]]
    ELSE Append(ags, reg)

\* (mutant) registration starts the agent with a new, empty inbox
EnsureInbox_reset(ibs, agent_id) == Put(ibs, agent_id, <<>>)

\* (mutant) registration creates no inbox
EnsureInbox_none(ibs, agent_id) == ibs

\* register_agent, effect on self.inboxes: "ensure inbox exists"
EnsureInbox(ibs, agent_id) ==
    IF agent_id \notin DOMAIN ibs THEN Put(ibs, agent_id, <<>>) ELSE ibs

\* get_agent: self.agents.get(agent_id)
get_agent(ags, agent_id) ==
    IF \E i \in DOMAIN ags : ags[i].agent_id = agent_id
    THEN ags[CHOOSE i \in DOMAIN ags : ags[i].agent_id = agent_id]
    ELSE None

\* list_agents: list(self.agents.values())
list_agents(ags) == ags

\* (mutant) the message is appended twice
InboxAppend_twice(ibs, msg) == [ibs EXCEPT ![msg.to_agent_id] = @ \o <<msg, msg>>]

\* send_message line 79: self.inboxes[to_agent_id].append(msg)
InboxAppend(ibs, msg) == [ibs EXCEPT ![msg.to_agent_id] = Append(@, msg)]

\* (mutant) no lazy creation: a message to an id without an inbox is dropped
send_message_nocreate(ibs, msg) ==
    IF msg.to_agent_id \notin DOMAIN ibs
    THEN ibs
    ELSE [ibs EXCEPT ![msg.to_agent_id] = Append(@, msg)]

\* (mutant) the message is stored in the sender's inbox
send_message_toSender(ibs, msg) ==
    LET withBox == IF msg.from_agent_id \notin DOMAIN ibs
                   THEN Put(ibs, msg.from_agent_id, <<>>)
                   ELSE ibs
    IN  [withBox EXCEPT ![msg.from_agent_id] = Append(@, msg)]

\* (mutant) insert(0, msg) instead of append(msg)
send_message_prepend(ibs, msg) ==
    LET withBox == IF msg.to_agent_id \notin DOMAIN ibs
                   THEN Put(ibs, msg.to_agent_id, <<>>)
                   ELSE ibs
    IN  [withBox EXCEPT ![msg.to_agent_id] = <<msg>> \o @]

\* send_message, effect on self.inboxes; msg is the A2AMessage it builds
send_message(ibs, msg) ==
    LET withBox == IF msg.to_agent_id \notin DOMAIN ibs
                   THEN Put(ibs, msg.to_agent_id, <<>>)
                   ELSE ibs
    IN  InboxAppend(withBox, msg)

\* get_inbox, returned list: list(self.inboxes.get(agent_id, []))
get_inbox(ibs, agent_id) == Get(ibs, agent_id, <<>>)

\* (mutant) clear=True keeps the first message in the inbox
get_inbox_after_keep(ibs, agent_id, clear) ==
    IF clear
    THEN Put(ibs, agent_id, IF Get(ibs, agent_id, <<>>) = <<>> THEN <<>>
                            ELSE <<Head(ibs[agent_id])>>)
    ELSE ibs

\* (mutant) the inbox is emptied whatever clear says
get_inbox_after_alwaysClear(ibs, agent_id, clear) == Put(ibs, agent_id, <<>>)

\* get_inbox, effect on self.inboxes
get_inbox_after(ibs, agent_id, clear) ==
    IF clear THEN Put(ibs, agent_id, <<>>) ELSE ibs

----------------------------------------------------------------------------
(* History of the hub-level operations *)

MsgIds(msgs) == { msgs[i].message_id : i \in DOMAIN msgs }

HistInit ==
    [ sentSince |-> [a \in AgentIds |-> <<>>],  \* sends to a since a's last clearing receive
      drained   |-> {},                         \* message_ids returned by clearing receives
      cleared   |-> {},                         \* agents that had a clearing receive
      latest    |-> <<>>,                       \* agent_id -> fields of its latest registration
      rereg     |-> {},                         \* agents registered again with other fields
      order     |-> <<>>,                       \* agent_ids in the order of their first registration
      torn      |-> FALSE,                      \* a thread was descheduled inside a hub method
      switches  |-> 0 ]                         \* the number of thread switches

\* the history after the operation that returned r
HistAfter(h, r) ==
    IF r.op = "register_agent" THEN
        [h EXCEPT !.latest = Put(@, r.agent_id, r.result),
                  !.order = IF r.agent_id \in DOMAIN h.latest THEN @ ELSE Append(@, r.agent_id),
                  !.rereg = IF r.agent_id \in DOMAIN h.latest /\ h.latest[r.agent_id] # r.result
                            THEN @ \cup {r.agent_id} ELSE @]
    ELSE IF r.op = "send_message" THEN
        [h EXCEPT !.sentSince[r.agent_id] = Append(@, r.result)]
    ELSE IF r.op = "get_inbox" /\ r.clear THEN
        [h EXCEPT !.sentSince[r.agent_id] = <<>>,
                  !.drained = @ \cup MsgIds(r.result),
                  !.cleared = @ \cup {r.agent_id}]
    ELSE h

----------------------------------------------------------------------------
(* Initial state: a fresh process. The hub is empty (nanda_hub.py:94); the *)
(* SQLite file outlives the process, so any stored profiles may be there.  *)

FreshHub ==
    /\ agents = <<>>
    /\ inboxes = <<>>
    /\ nextId = 1
    /\ ret = [op |-> "init"]
    /\ run = [pc |-> "idle", calls |-> 0]
    /\ threads = <<>>
    /\ hist = HistInit

----------------------------------------------------------------------------
(* Hub operations as called through the HTTP layer or directly *)

\* hub.register_agent(agent_id, agent_type, display_name, personality_summary)
RegisterAgent(agent_id, f) ==
    LET reg == AgentRegistration(agent_id, f[1], f[2], f[3]) IN
    /\ agents' = AgentsPut(agents, reg)
    /\ inboxes' = EnsureInbox(inboxes, agent_id)
    /\ ret' = [op |-> "register_agent", agent_id |-> agent_id, result |-> reg]
    /\ UNCHANGED <<nextId, profiles, dbAgents, threads, run>>

\* (mutant) a send also enters its recipient in the directory
SendMessage_registers(from_agent_id, to_agent_id, payload) ==
    LET msg == A2AMessage(nextId, from_agent_id, to_agent_id, payload) IN
    /\ inboxes' = send_message(inboxes, msg)
    /\ agents' = AgentsPut(agents, AgentRegistration(to_agent_id, "unknown", "", ""))
    /\ nextId' = nextId + 1
    /\ ret' = [op |-> "send_message", agent_id |-> to_agent_id, result |-> msg]
    /\ UNCHANGED <<profiles, dbAgents, threads, run>>

\* hub.send_message(from_agent_id, to_agent_id, payload)
SendMessage(from_agent_id, to_agent_id, payload) ==
    LET msg == A2AMessage(nextId, from_agent_id, to_agent_id, payload) IN
    /\ inboxes' = send_message(inboxes, msg)
    /\ nextId' = nextId + 1
    /\ ret' = [op |-> "send_message", agent_id |-> to_agent_id, result |-> msg]
    /\ UNCHANGED <<agents, profiles, dbAgents, threads, run>>

\* hub.get_inbox(agent_id, clear)
GetInbox(agent_id, clear) ==
    LET msgs == get_inbox(inboxes, agent_id) IN
    /\ inboxes' = get_inbox_after(inboxes, agent_id, clear)
    /\ ret' = [op |-> "get_inbox", agent_id |-> agent_id, clear |-> clear, result |-> msgs]
    /\ UNCHANGED <<agents, nextId, profiles, dbAgents, threads, run>>

\* a recommendation_request without from_user_id, and a message of another type
PlainRequest == Dict(<< <<"type", "recommendation_request">>, <<"query", "Q">> >>)

Note == Dict(<< <<"type", "note">> >>)

\* payloads the hub-level clients send: the hub never looks inside them
HubPayloads == { PlainRequest, Note }

HubSenders == {"u1"}

\* the hub's operations in any order, each recorded in the history
Recorded == hist' = HistAfter(hist, ret')

HubNext ==
    \/ \E a \in HubIds, f \in RegFields : RegisterAgent(a, f) /\ Recorded
    \/ \E a \in HubSenders, b \in HubIds, p \in HubPayloads :
         nextId <= MaxMsgs /\ SendMessage(a, b, p) /\ Recorded
    \/ \E a \in HubIds, c \in BOOLEAN : GetInbox(a, c) /\ Recorded

HubInit == FreshHub /\ profiles = <<>> /\ dbAgents = {}

SpecHub == HubInit /\ [][HubNext]_vars

----------------------------------------------------------------------------
(* The hub called from several request threads at once. The HTTP handlers  *)
(* are plain functions, which the server runs in a thread pool, and        *)
(* NandaHub takes no lock: the statements of two calls interleave. A       *)
(* thread's record holds its position (pc) and its local variables.        *)

\* sends start while fewer than MaxThreadMsgs message ids have been issued
MaxThreadMsgs == 2

ThreadIds == {"t1", "t2"}

ThreadPayloads == { Note }

ThreadRegFields == { <<"freigent", "n1", "">> }

Idle(t) == t \notin DOMAIN threads

At(t, op, pc) == t \in DOMAIN threads /\ threads[t].op = op /\ threads[t].pc = pc

\* the thread's call returns: its locals are gone
Drop(ths, t) == [k \in DOMAIN ths \ {t} |-> ths[k]]

\* get_inbox line 87: msgs = list(self.inboxes.get(agent_id, [])); without clear,
\* line 90 returns them
GetInbox_read(t, agent_id, clear) ==
    /\ Idle(t)
    /\ LET msgs == get_inbox(inboxes, agent_id) IN
       IF clear
       THEN /\ threads' = Put(threads, t, [op |-> "get_inbox", pc |-> "clear",
                                           agent_id |-> agent_id, msgs |-> msgs])
            /\ UNCHANGED <<ret, hist>>
       ELSE /\ ret' = [op |-> "get_inbox", agent_id |-> agent_id, clear |-> FALSE,
                       result |-> msgs]
            /\ hist' = HistAfter(hist, ret')
            /\ UNCHANGED threads
    /\ UNCHANGED <<agents, inboxes, nextId, profiles, dbAgents, run>>

\* get_inbox lines 88-90: self.inboxes[agent_id] = []; return msgs
GetInbox_clear(t) ==
    /\ At(t, "get_inbox", "clear")
    /\ inboxes' = get_inbox_after(inboxes, threads[t].agent_id, TRUE)
    /\ ret' = [op |-> "get_inbox", agent_id |-> threads[t].agent_id, clear |-> TRUE,
               result |-> threads[t].msgs]
    /\ hist' = HistAfter(hist, ret')
    /\ threads' = Drop(threads, t)
    /\ UNCHANGED <<agents, nextId, profiles, dbAgents, run>>

\* send_message line 70: if to_agent_id not in self.inboxes
SendMessage_check(t, from_agent_id, to_agent_id, payload) ==
    /\ Idle(t)
    /\ threads' = Put(threads, t,
                      [op |-> "send_message",
                       pc |-> IF to_agent_id \notin DOMAIN inboxes THEN "create" ELSE "append",
                       from_agent_id |-> from_agent_id, to_agent_id |-> to_agent_id,
                       payload |-> payload])
    /\ UNCHANGED <<agents, inboxes, nextId, profiles, dbAgents, ret, run, hist>>

\* send_message line 72: self.inboxes[to_agent_id] = []
SendMessage_create(t) ==
    /\ At(t, "send_message", "create")
    /\ inboxes' = Put(inboxes, threads[t].to_agent_id, <<>>)
    /\ threads' = [threads EXCEPT ![t].pc = "append"]
    /\ UNCHANGED <<agents, nextId, profiles, dbAgents, ret, run, hist>>

\* send_message lines 73-80: build the message, append it, return it
SendMessage_append(t) ==
    /\ At(t, "send_message", "append")
    /\ LET msg == A2AMessage(nextId, threads[t].from_agent_id, threads[t].to_agent_id,
                             threads[t].payload)
       IN  /\ inboxes' = [inboxes EXCEPT ![msg.to_agent_id] = Append(@, msg)]
           /\ ret' = [op |-> "send_message", agent_id |-> msg.to_agent_id, result |-> msg]
    /\ nextId' = nextId + 1
    /\ hist' = HistAfter(hist, ret')
    /\ threads' = Drop(threads, t)
    /\ UNCHANGED <<agents, profiles, dbAgents, run>>

\* register_agent lines 44-50: build the registration, self.agents[agent_id] = reg
RegisterAgent_store(t, agent_id, f) ==
    /\ Idle(t)
    /\ LET reg == AgentRegistration(agent_id, f[1], f[2], f[3])
       IN  /\ agents' = AgentsPut(agents, reg)
           /\ threads' = Put(threads, t, [op |-> "register_agent", pc |-> "check",
                                          agent_id |-> agent_id, reg |-> reg])
    /\ UNCHANGED <<inboxes, nextId, profiles, dbAgents, ret, run, hist>>

\* register_agent line 52: if agent_id not in self.inboxes; line 54 when it is there
RegisterAgent_check(t) ==
    /\ At(t, "register_agent", "check")
    /\ IF threads[t].agent_id \notin DOMAIN inboxes
       THEN /\ threads' = [threads EXCEPT ![t].pc = "create"]
            /\ UNCHANGED <<ret, hist>>
       ELSE /\ ret' = [op |-> "register_agent", agent_id |-> threads[t].agent_id,
                       result |-> threads[t].reg]
            /\ hist' = HistAfter(hist, ret')
            /\ threads' = Drop(threads, t)
    /\ UNCHANGED <<agents, inboxes, nextId, profiles, dbAgents, run>>

\* register_agent lines 53-54: self.inboxes[agent_id] = []; return reg
RegisterAgent_create(t) ==
    /\ At(t, "register_agent", "create")
    /\ inboxes' = Put(inboxes, threads[t].agent_id, <<>>)
    /\ ret' = [op |-> "register_agent", agent_id |-> threads[t].agent_id,
               result |-> threads[t].reg]
    /\ hist' = HistAfter(hist, ret')
    /\ threads' = Drop(threads, t)
    /\ UNCHANGED <<agents, nextId, profiles, dbAgents, run>>

ThreadsInit == FreshHub /\ profiles = <<>> /\ dbAgents = {}

ThreadsNext ==
    \/ \E t \in ThreadIds, a \in HubIds, c \in BOOLEAN : GetInbox_read(t, a, c)
    \/ \E t \in ThreadIds : GetInbox_clear(t)
    \/ \E t \in ThreadIds, a \in HubSenders, b \in HubIds, p \in ThreadPayloads :
         /\ nextId + Cardinality({ k \in DOMAIN threads : threads[k].op = "send_message" })
               <= MaxThreadMsgs
         /\ SendMessage_check(t, a, b, p)
    \/ \E t \in ThreadIds : SendMessage_create(t)
    \/ \E t \in ThreadIds : SendMessage_append(t)
    \/ \E t \in ThreadIds, a \in HubIds, f \in ThreadRegFields : RegisterAgent_store(t, a, f)
    \/ \E t \in ThreadIds : RegisterAgent_check(t)
    \/ \E t \in ThreadIds : RegisterAgent_create(t)

SpecThreads == ThreadsInit /\ [][ThreadsNext]_vars

----------------------------------------------------------------------------
(* api_server_llm_a2a_auto_db_ec2.py: profile store and recommendation call *)

\* the profile dict db_load_profile builds from the row (its values and its
\* experiences play no part here)
Profile(name, personality) == Dict(<< <<"name", name>>, <<"personality", personality>> >>)

\* sqlite3 binds a str, an int (a bool is an int) or None as the parameter of
\* "WHERE user_id = ?" and raises ProgrammingError for a list or a dict ("Error
\* binding parameter 1: type 'list' is not supported")
SqlRaises(v) == JsonKind(v) \in {"list", "dict"}

\* the exception, where a function's value is expected
ProgrammingError == [raises |-> "ProgrammingError"]

\* the text a bound parameter is compared as: profiles.user_id has TEXT affinity,
\* so an integer parameter is converted to its decimal text (5 finds the row '5',
\* True the row '1')
SqlText(v) ==
    CASE JsonKind(v) = "str" -> v
      [] JsonKind(v) = "bool" -> IF v THEN "1" ELSE "0"
      [] OTHER -> ToString(v)

\* (mutant) a missing profile is replaced by an empty one
db_load_profile_default(profs, user_id) ==
    IF SqlRaises(user_id) THEN ProgrammingError
    ELSE IF IsNone(user_id) THEN Profile("", "")
    ELSE Get(profs, SqlText(user_id), Profile("", ""))

\* db_load_profile: the stored profile, or None (user_id = NULL matches no row);
\* the exception of cur.execute leaves it uncaught
db_load_profile(profs, user_id) ==
    IF SqlRaises(user_id) THEN ProgrammingError
    ELSE IF IsNone(user_id) THEN None
    ELSE Get(profs, SqlText(user_id), None)

\* the call of db_load_profile raised
Raised(profile) == SameValue(profile, ProgrammingError)

\* db_upsert_profile: INSERT INTO profiles ... ON CONFLICT(user_id) DO UPDATE
db_upsert_profile(profs, user_id, profile) == Put(profs, user_id, profile)

\* db_upsert_agent: INSERT INTO agents ... ON CONFLICT(agent_id) DO UPDATE; every
\* caller passes agent_type 'freigent'
db_upsert_agent(dbas, agent_id) == dbas \cup {agent_id}

\* a product as the language model is asked to describe it: a JSON object
Product(name) == Dict(<< <<"name", name>> >>)

\* an answer of the language model that is an object with the two keys asked for
Answer(products, summary_for_user) ==
    Dict(<< <<"products", products>>, <<"summary_for_user", summary_for_user>> >>)

\* RealJsonFreigent.generate_recommendations_json returns what the language model
\* answered, so its value is an input: a parsed answer with a list of product
\* objects, one whose "products" is no list, one whose product is no object, the
\* fallback of the except branch, and an answer that is a JSON string, which is
\* returned as it is when both key names occur in it (lines 146-155: "products"
\* not in parsed is then a substring test). Listed, as values of different kinds
\* are in no set together.
LLMResults ==
    << Answer(<<Product("p1")>>, "s"),
       Answer(<<Product("p2")>>, "s"),
       Answer("none", "s"),
       Answer(<<"p3">>, "s"),
       Answer(<<>>, "error parsing the JSON output"),
       "products, summary_for_user" >>

Min(a, b) == IF a <= b THEN a ELSE b
Max(a, b) == IF a >= b THEN a ELSE b

\* Python's s[:n]
SliceTo(s, n) ==
    IF n >= 0 THEN SubSeq(s, 1, Min(n, Len(s))) ELSE SubSeq(s, 1, Max(Len(s) + n, 0))

----------------------------------------------------------------------------
(* A request thread of the server. The handlers are plain (def) functions,  *)
(* which the server runs in pool threads: a thread may be descheduled       *)
(* between any two statements, in the hub's methods too, and it waits       *)
(* inside every SQLite call and every call of the language model. The       *)
(* variable run holds the call of the thread that is scheduled: the handler *)
(* it serves (op), its position (pc), its local variables and, while it is  *)
(* inside a method of the hub, that method's frame (hub).                   *)

\* the thread is in no hub method
NoCall == [op |-> "none"]

\* the thread enters hub.register_agent(...); its first statement builds reg
RegisterCall(agent_id, agent_type, display_name, personality_summary) ==
    [op |-> "register_agent", pc |-> "store",
     reg |-> AgentRegistration(agent_id, agent_type, display_name, personality_summary)]

\* the thread enters hub.send_message(from_agent_id, to_agent_id, payload)
SendCall(from_agent_id, to_agent_id, payload) ==
    [op |-> "send_message", pc |-> "check", from_agent_id |-> from_agent_id,
     to_agent_id |-> to_agent_id, payload |-> payload]

\* the thread enters hub.get_inbox(agent_id, clear=True), as every caller in the
\* server passes it
InboxCall(agent_id) ==
    [op |-> "get_inbox", pc |-> "read", agent_id |-> agent_id, msgs |-> <<>>]

\* the scheduled thread is inside hub method op, about to execute statement pc
In(op, pc) == run.pc # "idle" /\ run.hub.op = op /\ run.hub.pc = pc

\* the scheduled thread serves handler op, is at pc and in no hub method
AtPc(op, pc) == run.pc = pc /\ run.op = op /\ run.hub.op = "none"

\* the handler has returned: the thread is free again
Done(r) == [pc |-> "idle", calls |-> r.calls]

(* process_recommendation_requests_for_agent. get_or_create_freigent (line    *)
(* 333) only caches the language-model client; it needs ANTHROPIC_API_KEY,   *)
(* which a running service has, and touches neither the hub nor the store.   *)

\* the payload of the recommendation_error reply; reason stands for error_text,
\* f"No profile found for user_id '{profile_user_id}'"
ErrorPayload(m, profile_user_id) ==
    Dict(<< <<"type", "recommendation_error">>,
            <<"reason", PyStr(profile_user_id)>>,
            <<"original_message_id", m.message_id>> >>)

\* the payload of the recommendation_response reply
ReplyPayload(m, query, profile_user_id, result) ==
    Dict(<< <<"type", "recommendation_response">>,
            <<"original_message_id", m.message_id>>,
            <<"query", query>>,
            <<"profile_user_id", profile_user_id>>,
            <<"result", result>> >>)

\* (mutant) the reply goes to the worker's own inbox instead of the requester's
ReplyTo_self(worker_id, m) == worker_id

\* to_agent_id of both replies: from_agent = m.from_agent_id
ReplyTo(worker_id, m) == m.from_agent_id

\* (mutant) the worker looks up its own agent's profile
ProfileUserId_worker(m) == m.to_agent_id

\* (mutant) the profile is looked up under the sender, never under from_user_id
ProfileUserId_sender(m) == m.from_agent_id

\* profile_user_id = payload.get("from_user_id", from_agent)
ProfileUserId(m) == JsonGet(m.payload, "from_user_id", m.from_agent_id)

\* the frame of a call process_recommendation_requests_for_agent(worker_id,
\* max_messages) that is about to drain the inbox: msgs, processed and the loop
\* position j are its locals, profile what line 355 loaded; sent (the messages
\* the call has sent) and before (the next message id when it was called) are
\* history, not program state
WorkerCall(worker_id, max_messages, nid) ==
    [pc |-> "drain", worker_id |-> worker_id, max_messages |-> max_messages,
     msgs |-> <<>>, j |-> 1, processed |-> <<>>, profile |-> None,
     sent |-> <<>>, before |-> nid]

\* no worker call in progress
NoWorker == [pc |-> "none"]

\* the message the loop is at
Current(w) == SliceTo(w.msgs, w.max_messages)[w.j]

\* payload = m.payload or {}; msg_type = payload.get("type"): None when the
\* payload has no type
MsgType(m) == JsonGet(m.payload, "type", None)

\* lines 337-349: the loop runs on over the messages of other types, each of which
\* gets an "ignored" summary, up to the next recommendation_request (position
\* "load": line 355 is next) or to the end of msgs[:max_messages] ("return")
RECURSIVE SkipIgnored(_)
SkipIgnored(w) ==
    IF w.j > Len(SliceTo(w.msgs, w.max_messages)) THEN [w EXCEPT !.pc = "return"]
    ELSE IF ~EqualsStr(MsgType(Current(w)), "recommendation_request")
    THEN SkipIgnored([w EXCEPT !.j = @ + 1,
                               !.processed = Append(@,
                                   Dict(<< <<"request_message_id", Current(w).message_id>>,
                                           <<"status", "ignored">>,
                                           <<"reason", PyStr(MsgType(Current(w)))>> >>))])
    ELSE [w EXCEPT !.pc = "load"]

\* the summary appended after the reply was sent (lines 367-373 and 395-401)
Outcome(w) ==
    IF IsNone(w.profile)
    THEN Dict(<< <<"request_message_id", Current(w).message_id>>,
                 <<"status", "error">>,
                 <<"error", PyStr(ProfileUserId(Current(w)))>> >>)
    ELSE Dict(<< <<"request_message_id", Current(w).message_id>>,
                 <<"status", "ok">>,
                 <<"sent_to", Current(w).from_agent_id>> >>)

\* the worker goes on after a hub method returned value: after get_inbox (line
\* 334) it enters the loop, after send_message (lines 358, 389) it appends the
\* summary and goes to the next message
WorkerResume(w, value) ==
    IF w.pc = "drain"
    THEN SkipIgnored([w EXCEPT !.msgs = value])
    ELSE SkipIgnored([w EXCEPT !.processed = Append(@, Outcome(w)),
                               !.sent = Append(@, value),
                               !.profile = None,
                               !.j = @ + 1])

\* what process_recommendation_requests_for_agent returns (line 403: result), with
\* the call's history
ProcessReturn(r, w) ==
    [op |-> "process", status |-> "returned", agent_id |-> w.worker_id,
     max_messages |-> w.max_messages, drained |-> w.msgs, before |-> w.before,
     result |-> w.processed, reached |-> Len(SliceTo(w.msgs, w.max_messages)),
     processed |-> w.processed, sent |-> w.sent, alone |-> r.alone]

\* db_load_profile raises at line 355 and nothing catches it: the call ends
\* without a return value. reached (the position in msgs[:max_messages] of the
\* message the loop was at) and processed (the list, which is lost with the
\* call) are history.
ProcessRaise(r, w) ==
    [op |-> "process", status |-> "ProgrammingError", agent_id |-> w.worker_id,
     max_messages |-> w.max_messages, drained |-> w.msgs, before |-> w.before,
     reached |-> w.j, processed |-> w.processed, sent |-> w.sent, alone |-> r.alone]

\* the exception leaves the worker's caller too: freigent_auto_search has no
\* handler for it (line 640), so the server answers HTTP 500
Raise(r) ==
    IF r.op = "process" THEN ProcessRaise(r, r.w)
    ELSE [op |-> "auto_search", user_id |-> r.user_id, status |-> "HTTP 500",
          raised_at |-> 355]

\* a caller of process_recommendation_requests_for_agent goes on after a hub
\* method returned value to the worker
ProcessResume(r, value, rt) ==
    LET w == WorkerResume(r.w, value) IN
    IF w.pc = "return"
    THEN [run |-> Done(r), ret |-> ProcessReturn(r, w)]
    ELSE [run |-> [r EXCEPT !.w = w, !.hub = NoCall], ret |-> rt]

----------------------------------------------------------------------------
(* api_server_llm_a2a_auto_db_ec2.py: freigent_auto_search *)

\* the sequences that list the elements of S once each
Perms(S) ==
    { p \in [1 .. Cardinality(S) -> S] : \A i, j \in 1 .. Cardinality(S) : i # j => p[i] # p[j] }

\* db_list_helper_agent_ids: the ids with a row in agents (type 'freigent') and in
\* profiles, other than the base. The query has no ORDER BY: any order may come back.
db_list_helper_agent_ids(dbas, profs, base_user_id) ==
    Perms({ a \in dbas \cap DOMAIN profs : a # base_user_id })

\* a recommendation_response as an a2a client posts it
ResponseWith(result) ==
    Dict(<< <<"type", "recommendation_response">>, <<"query", "Q">>, <<"result", result>> >>)

\* worker cap of the orchestration (max_messages=10)
RunMaxMessages == 10

\* the payload of the request sent to each helper
RequestPayload(user_id, query) ==
    Dict(<< <<"type", "recommendation_request">>,
            <<"from_user_id", user_id>>,
            <<"query", query>> >>)

IsResponse(m) == EqualsStr(MsgType(m), "recommendation_response")

\* (mutant) fan-in turns every incoming message into a HelperResult
Responses_all(incoming) == incoming

\* the messages of incoming that pass "if p_type != 'recommendation_response': continue"
Responses(incoming) == SelectSeq(incoming, IsResponse)

\* result = payload.get("result", {})
ResultOf(m) == JsonGet(m.payload, "result", EmptyDict)

\* helper_results: one HelperResult per response, in inbox order
HelperResults(incoming) ==
    [k \in DOMAIN Responses(incoming) |->
        [agent_id |-> Responses(incoming)[k].from_agent_id,
         result |-> ResultOf(Responses(incoming)[k])]]

\* products of a result, as extended into merged_products: result.get("products",
\* []), and nothing if that is no list
ProductsOf(result) ==
    LET products == JsonGet(result, "products", <<>>) IN
    IF IsList(products) THEN products ELSE <<>>

RECURSIVE ExtendAll(_, _, _)
ExtendAll(merged, hrs, k) ==
    IF k > Len(hrs) THEN merged
    ELSE ExtendAll(merged \o ProductsOf(hrs[k].result), hrs, k + 1)

\* (mutant) the base products are appended after the helpers' products
MergedProducts_baseLast(base_result, hrs) ==
    ExtendAll(<<>>, hrs, 1) \o ProductsOf(base_result)

\* merged_products: the base products, then each helper's, by plain concatenation
MergedProducts(base_result, hrs) == ExtendAll(ProductsOf(base_result), hrs, 1)

\* (mutant) the summary counts the helper ids instead of the helper results
MergedSummary_countIds(user_id, helper_count, helper_ids) ==
    [base |-> user_id, helper_count |-> Len(helper_ids),
     helpers |-> IF helper_ids # <<>> THEN helper_ids ELSE <<"none">>]

\* merged_summary_for_user: the base id, the helper count and the joined helper ids
\* ('none' when there is no helper id)
MergedSummary(user_id, helper_count, helper_ids) ==
    [base |-> user_id, helper_count |-> helper_count,
     helpers |-> IF helper_ids # <<>> THEN helper_ids ELSE <<"none">>]

\* fan-in raises: the base result is no dict (AttributeError on .get, line 648);
\* the result of a response in the base inbox is no dict (validation of
\* HelperResult.result: Dict[str, Any], line 662); or a merged product is no dict
\* (validation of AutoSearchResponse.merged_products: List[Dict[str, Any]], line 678)
FanInRaises(base_result, incoming) ==
    \/ ~IsDict(base_result)
    \/ \E k \in DOMAIN Responses(incoming) : ~IsDict(ResultOf(Responses(incoming)[k]))
    \/ \E k \in DOMAIN MergedProducts(base_result, HelperResults(incoming)) :
          ~IsDict(MergedProducts(base_result, HelperResults(incoming))[k])

\* lines 644-685: what the handler answers once get_inbox has returned incoming;
\* an exception leaves the handler as HTTP 500
AutoSearchReturn(r, incoming) ==
    IF FanInRaises(r.base_result, incoming)
    THEN [op |-> "auto_search", user_id |-> r.user_id, status |-> "HTTP 500",
          incoming |-> incoming]
    ELSE [op |-> "auto_search", user_id |-> r.user_id, status |-> "200",
          incoming |-> incoming, requests |-> r.requests, before |-> r.before,
          gone |-> r.gone,
          result |->
            [base_agent_id |-> r.user_id,
             helper_agent_ids |-> r.helper_ids,
             base_result |-> r.base_result,
             helper_results |-> HelperResults(incoming),
             merged_products |-> MergedProducts(r.base_result, HelperResults(incoming)),
             merged_summary_for_user |->
                MergedSummary(r.user_id, Len(HelperResults(incoming)), r.helper_ids)]]

\* line 643: the handler enters hub.get_inbox(user_id, clear=True)
StartFanIn(r) == [r EXCEPT !.pc = "fanin", !.w = NoWorker, !.hub = InboxCall(r.user_id)]

\* line 640: the handler calls the worker for helper i, which enters get_inbox
StartWorker(r, i, nid) ==
    [r EXCEPT !.pc = "worker", !.i = i,
              !.w = WorkerCall(r.helper_ids[i], RunMaxMessages, nid),
              !.hub = InboxCall(r.helper_ids[i])]

\* line 628: the handler enters hub.send_message for helper i
StartSend(r, i) ==
    [r EXCEPT !.pc = "send", !.i = i, !.prof = None,
              !.hub = SendCall(r.user_id, r.helper_ids[i],
                               RequestPayload(r.user_id, r.query))]

\* line 616: the next pass of the registration loop, or the first send after it
AfterRegister(r) ==
    IF r.i < Len(r.helper_ids)
    THEN [r EXCEPT !.pc = "reg_load", !.i = @ + 1, !.prof = None, !.hub = NoCall]
    ELSE StartSend(r, 1)

\* line 627: the next pass of the send loop, or the first worker call after it
AfterSend(r, nid) ==
    IF r.i < Len(r.helper_ids) THEN StartSend(r, r.i + 1) ELSE StartWorker(r, 1, nid)

\* line 639: the next pass of the worker loop, or fan-in after it
AfterWorker(r, nid) ==
    IF r.i < Len(r.helper_ids) THEN StartWorker(r, r.i + 1, nid) ELSE StartFanIn(r)

\* freigent_auto_search goes on after a hub method returned value. requests (the
\* messages the sends returned, which the handler drops), drains (the helpers
\* whose worker call has returned) and drained (what each of these calls took
\* out of the helper's inbox) are history.
AutoSearchResume(r, value, rt, nid) ==
    CASE r.pc = "register" -> [run |-> AfterRegister(r), ret |-> rt]
      [] r.pc = "send" ->
            [run |-> AfterSend([r EXCEPT !.requests = Append(@, value)], nid), ret |-> rt]
      [] r.pc = "worker" ->
            IF WorkerResume(r.w, value).pc = "return"
            THEN [run |-> AfterWorker([r EXCEPT !.drains = Append(@, r.helper_ids[r.i]),
                                                !.drained =
                                                   Append(@, WorkerResume(r.w, value).msgs)],
                                      nid),
                  ret |-> rt]
            ELSE [run |-> [r EXCEPT !.w = WorkerResume(r.w, value), !.hub = NoCall],
                  ret |-> rt]
      [] r.pc = "fanin" -> [run |-> Done(r), ret |-> AutoSearchReturn(r, value)]

\* the caller of a hub method goes on, up to its next access to shared state or
\* to its return: nanda_a2a_send and freigent_set_profile return at once
Resume(r, value, rt, nid) ==
    CASE r.op = "auto_search" -> AutoSearchResume(r, value, rt, nid)
      [] r.op = "process" -> ProcessResume(r, value, rt)
      [] r.op = "a2a_send" ->
            [run |-> Done(r),
             ret |-> [op |-> "send_message", agent_id |-> value.to_agent_id,
                      result |-> value]]
      [] r.op = "set_profile" ->
            [run |-> Done(r),
             ret |-> [op |-> "set_profile", user_id |-> r.user_id, status |-> "ok"]]

\* the hub method returns value to its caller
Return(value, nid) ==
    /\ run' = Resume(run, value, ret, nid).run
    /\ ret' = Resume(run, value, ret, nid).ret

----------------------------------------------------------------------------
(* nanda_hub.py: the statements of the hub's methods, run by the scheduled  *)
(* thread                                                                   *)

\* register_agent lines 44-50: build the registration, self.agents[agent_id] = reg
HubStore ==
    /\ In("register_agent", "store")
    /\ agents' = AgentsPut(agents, run.hub.reg)
    /\ run' = [run EXCEPT !.hub.pc = "check"]
    /\ UNCHANGED <<inboxes, nextId, profiles, dbAgents, ret, threads, hist>>

\* register_agent line 52: if agent_id not in self.inboxes; line 54 when it is there
HubCheck ==
    /\ In("register_agent", "check")
    /\ IF run.hub.reg.agent_id \notin DOMAIN inboxes
       THEN run' = [run EXCEPT !.hub.pc = "create"] /\ UNCHANGED ret
       ELSE Return(run.hub.reg, nextId)
    /\ UNCHANGED <<agents, inboxes, nextId, profiles, dbAgents, threads, hist>>

\* register_agent lines 53-54: self.inboxes[agent_id] = []; return reg
HubCreate ==
    /\ In("register_agent", "create")
    /\ inboxes' = Put(inboxes, run.hub.reg.agent_id, <<>>)
    /\ Return(run.hub.reg, nextId)
    /\ UNCHANGED <<agents, nextId, profiles, dbAgents, threads, hist>>

\* send_message line 70: if to_agent_id not in self.inboxes
HubSendCheck ==
    /\ In("send_message", "check")
    /\ run' = [run EXCEPT !.hub.pc = IF run.hub.to_agent_id \notin DOMAIN inboxes
                                     THEN "create" ELSE "append"]
    /\ UNCHANGED <<agents, inboxes, nextId, profiles, dbAgents, ret, threads, hist>>

\* send_message line 72: self.inboxes[to_agent_id] = []
HubSendCreate ==
    /\ In("send_message", "create")
    /\ inboxes' = Put(inboxes, run.hub.to_agent_id, <<>>)
    /\ run' = [run EXCEPT !.hub.pc = "append"]
    /\ UNCHANGED <<agents, nextId, profiles, dbAgents, ret, threads, hist>>

\* send_message lines 73-80: build the message, append it, return it
HubSendAppend ==
    /\ In("send_message", "append")
    /\ LET msg == A2AMessage(nextId, run.hub.from_agent_id, run.hub.to_agent_id,
                             run.hub.payload)
       IN  /\ inboxes' = InboxAppend(inboxes, msg)
           /\ Return(msg, nextId + 1)
    /\ nextId' = nextId + 1
    /\ UNCHANGED <<agents, profiles, dbAgents, threads, hist>>

\* get_inbox line 87: msgs = list(self.inboxes.get(agent_id, []))
HubRead ==
    /\ In("get_inbox", "read")
    /\ run' = [run EXCEPT !.hub.msgs = get_inbox(inboxes, run.hub.agent_id),
                          !.hub.pc = "clear"]
    /\ UNCHANGED <<agents, inboxes, nextId, profiles, dbAgents, ret, threads, hist>>

\* get_inbox lines 88-90: self.inboxes[agent_id] = []; return msgs
HubClear ==
    /\ In("get_inbox", "clear")
    /\ inboxes' = get_inbox_after(inboxes, run.hub.agent_id, TRUE)
    /\ Return(run.hub.msgs, nextId)
    /\ UNCHANGED <<agents, nextId, profiles, dbAgents, threads, hist>>

----------------------------------------------------------------------------
(* The handlers and the worker, statement by statement between two accesses *)
(* to shared state                                                          *)

\* nanda_a2a_send (lines 539-544): the handler enters hub.send_message
A2ASend(from_agent_id, to_agent_id, payload) ==
    /\ run.pc = "idle"
    /\ run' = [op |-> "a2a_send", pc |-> "send", calls |-> run.calls, alone |-> TRUE,
               hub |-> SendCall(from_agent_id, to_agent_id, payload)]
    /\ UNCHANGED <<agents, inboxes, nextId, profiles, dbAgents, ret, threads, hist>>

\* a call process_recommendation_requests_for_agent(worker_id, max_messages), lines
\* 333-334: the worker enters hub.get_inbox
Process(worker_id, max_messages) ==
    /\ run.pc = "idle"
    /\ run' = [op |-> "process", pc |-> "worker", calls |-> run.calls + 1, alone |-> TRUE,
               hub |-> InboxCall(worker_id),
               w |-> WorkerCall(worker_id, max_messages, nextId)]
    /\ UNCHANGED <<agents, inboxes, nextId, profiles, dbAgents, ret, threads, hist>>

\* worker lines 351-366: profile = db_load_profile(profile_user_id), which raises
\* when sqlite3 cannot bind profile_user_id; without a profile the worker enters
\* hub.send_message with the error
WorkerLoad ==
    /\ run.pc = "worker" /\ run.hub.op = "none" /\ run.w.pc = "load"
    /\ LET m == Current(run.w)
           profile == db_load_profile(profiles, ProfileUserId(m))
       IN  IF Raised(profile)
           THEN run' = Done(run) /\ ret' = Raise(run)
           ELSE /\ run' = IF IsNone(profile)
                          THEN [run EXCEPT !.w.pc = "reply",
                                           !.hub = SendCall(run.w.worker_id,
                                                            ReplyTo(run.w.worker_id, m),
                                                            ErrorPayload(m, ProfileUserId(m)))]
                          ELSE [run EXCEPT !.w.pc = "generate", !.w.profile = profile]
                /\ ret' = ret
    /\ UNCHANGED <<agents, inboxes, nextId, profiles, dbAgents, threads, hist>>

\* worker lines 376-393: the language model answers (one of results), and the
\* worker enters hub.send_message with the response
WorkerGenerate(results) ==
    /\ run.pc = "worker" /\ run.hub.op = "none" /\ run.w.pc = "generate"
    /\ \E k \in DOMAIN results :
         LET m == Current(run.w) IN
         run' = [run EXCEPT !.w.pc = "reply",
                            !.hub = SendCall(run.w.worker_id, ReplyTo(run.w.worker_id, m),
                                             ReplyPayload(m, JsonGet(m.payload, "query", ""),
                                                          ProfileUserId(m), results[k]))]
    /\ UNCHANGED <<agents, inboxes, nextId, profiles, dbAgents, ret, threads, hist>>

\* freigent_auto_search lines 594-604: load the base profile; absent: HTTP 400.
\* before (the inboxes when the call began) and gone (the helpers whose profile
\* was deleted after discovery and before their worker call) are history.
AutoSearch(user_id, query) ==
    /\ run.pc = "idle"
    /\ IF IsNone(db_load_profile(profiles, user_id))
       THEN /\ ret' = [op |-> "auto_search", user_id |-> user_id, status |-> "HTTP 400"]
            /\ run' = [pc |-> "idle", calls |-> run.calls + 1]
       ELSE /\ ret' = [op |-> "auto_search", user_id |-> user_id, status |-> "running"]
            /\ run' = [op |-> "auto_search", pc |-> "base", calls |-> run.calls + 1,
                       alone |-> TRUE, hub |-> NoCall,
                       user_id |-> user_id, query |-> query,
                       base_result |-> None, helper_ids |-> <<>>, i |-> 1,
                       prof |-> None, w |-> NoWorker,
                       requests |-> <<>>, drains |-> <<>>, drained |-> <<>>, gone |-> {},
                       before |-> inboxes]
    /\ UNCHANGED <<agents, inboxes, nextId, profiles, dbAgents, threads, hist>>

\* lines 607-610: the language model answers the base query (one of results)
RunBase(results) ==
    /\ AtPc("auto_search", "base")
    /\ \E k \in DOMAIN results :
         run' = [run EXCEPT !.pc = "discover", !.base_result = results[k]]
    /\ UNCHANGED <<agents, inboxes, nextId, profiles, dbAgents, ret, threads, hist>>

\* line 613: helper_ids = db_list_helper_agent_ids(user_id); without helpers the
\* three loops are empty and the handler enters hub.get_inbox (line 643)
RunDiscover ==
    /\ AtPc("auto_search", "discover")
    /\ \E helper_ids \in db_list_helper_agent_ids(dbAgents, profiles, run.user_id) :
         run' = IF helper_ids = <<>>
                THEN StartFanIn([run EXCEPT !.helper_ids = helper_ids])
                ELSE [run EXCEPT !.pc = "reg_load", !.helper_ids = helper_ids, !.i = 1]
    /\ UNCHANGED <<agents, inboxes, nextId, profiles, dbAgents, ret, threads, hist>>

\* lines 616-619: prof = db_load_profile(hid); with a profile the handler enters
\* hub.register_agent
RunRegLoad ==
    /\ AtPc("auto_search", "reg_load")
    /\ LET hid == run.helper_ids[run.i]
           prof == db_load_profile(profiles, hid)
       IN  run' = IF IsNone(prof)
                  THEN AfterRegister(run)
                  ELSE [run EXCEPT !.pc = "register", !.prof = prof,
                                   !.hub = RegisterCall(hid, "freigent", Item(prof, "name"),
                                                        Item(prof, "personality"))]
    /\ UNCHANGED <<agents, inboxes, nextId, profiles, dbAgents, ret, threads, hist>>

\* freigent_set_profile lines 421-444: db_upsert_profile(user_id, profile_dict)
SetProfile(user_id, name, personality) ==
    /\ run.pc = "idle"
    /\ profiles' = db_upsert_profile(profiles, user_id, Profile(name, personality))
    /\ run' = [op |-> "set_profile", pc |-> "upsert_agent", calls |-> run.calls + 1,
               alone |-> TRUE, hub |-> NoCall, user_id |-> user_id,
               profile |-> Profile(name, personality)]
    /\ UNCHANGED <<agents, inboxes, nextId, dbAgents, ret, threads, hist>>

\* freigent_set_profile lines 447-461: db_upsert_agent(user_id, 'freigent', ...),
\* then the handler enters hub.register_agent
SetProfileAgent ==
    /\ AtPc("set_profile", "upsert_agent")
    /\ dbAgents' = db_upsert_agent(dbAgents, run.user_id)
    /\ run' = [run EXCEPT !.pc = "register",
                          !.hub = RegisterCall(run.user_id, "freigent",
                                               Item(run.profile, "name"),
                                               Item(run.profile, "personality"))]
    /\ UNCHANGED <<agents, inboxes, nextId, profiles, ret, threads, hist>>

\* the statements a request thread executes after it has entered a handler
\* (results: the answers the language model may give, listed)
Step(results) ==
    \/ HubStore
    \/ HubCheck
    \/ HubCreate
    \/ HubSendCheck
    \/ HubSendCreate
    \/ HubSendAppend
    \/ HubRead
    \/ HubClear
    \/ WorkerLoad
    \/ WorkerGenerate(results)
    \/ RunBase(results)
    \/ RunDiscover
    \/ RunRegLoad

\* the first statement of each hub method
FirstStatement ==
    [register_agent |-> "store", send_message |-> "check", get_inbox |-> "read"]

\* the call r has executed some, not all, statements of a hub method
InsideHub(r) ==
    IF r.pc = "idle" THEN FALSE
    ELSE IF r.hub.op = "none" THEN FALSE
    ELSE r.hub.pc # FirstStatement[r.hub.op]

\* the threads switch at most MaxSwitches times
MaxSwitches == 2

\* a second pool thread: the scheduled thread is descheduled where it stands and
\* the waiting one goes on. A call that was descheduled did not run alone;
\* hist.torn records that a thread was descheduled inside a hub method, and
\* hist.switches counts the switches.
Yield ==
    /\ hist.switches < MaxSwitches
    /\ run' = Get(threads, "t2", [pc |-> "idle", calls |-> 0])
    /\ threads' = Put(threads, "t2",
                      IF run.pc = "idle" THEN run ELSE [run EXCEPT !.alone = FALSE])
    /\ hist' = [hist EXCEPT !.torn = @ \/ InsideHub(run), !.switches = @ + 1]
    /\ UNCHANGED <<agents, inboxes, nextId, profiles, dbAgents, ret>>

----------------------------------------------------------------------------
(* The worker on inboxes filled through POST /nanda/a2a/send, with two pool *)
(* threads: worker calls and sends interleave statement by statement. The   *)
(* a2a clients send before the first thread switch; a send that is under    *)
(* way then goes on among the worker calls.                                 *)

\* a2a clients send while fewer than MaxWorkerMsgs message ids have been issued
MaxWorkerMsgs == 2

\* the number of worker calls a thread makes
MaxWorkerCalls == 1

WorkerIds == {"u1", "u2"}

\* the user ids profiles are stored under in these runs (under "u2" alone, or
\* under both)
WorkerProfileIds == {"u2", "5"}

\* payloads the a2a clients send: requests without from_user_id and with a
\* from_user_id that is a string, a number, a list or an object, a message whose
\* type is no string (an object of two entries), and the empty payload (listed,
\* as values of different kinds are in no set together)
WorkerPayloads ==
    << PlainRequest,
       RequestPayload("u2", "Q"),
       RequestPayload(5, "Q"),
       RequestPayload(<<"u2">>, "Q"),
       RequestPayload(Dict(<< <<"user id", "u2">> >>), "Q"),
       Dict(<< <<"type", Dict(<< <<"b", 1>>, <<"a", "\f">> >>)>> >>),
       EmptyDict >>

\* what the language model answers in these runs: a product list, or the fallback
WorkerResults == << LLMResults[1], LLMResults[5] >>

\* the max_messages values the worker is called with; 10 is the default
MaxMessagesValues == {1, 10}

WorkerInit ==
    /\ FreshHub
    /\ profiles \in { [u \in S |-> Profile("n1", "p1")] : S \in {{"u2"}, WorkerProfileIds} }
    /\ dbAgents = DOMAIN profiles

WorkerNext ==
    \/ \E a \in WorkerIds, b \in WorkerIds, p \in DOMAIN WorkerPayloads :
         hist.switches = 0 /\ nextId <= MaxWorkerMsgs /\ A2ASend(a, b, WorkerPayloads[p])
    \/ \E w \in WorkerIds, k \in MaxMessagesValues :
         run.calls < MaxWorkerCalls /\ Process(w, k)
    \/ HubSendCheck
    \/ HubSendCreate
    \/ HubSendAppend
    \/ HubRead
    \/ HubClear
    \/ WorkerLoad
    \/ WorkerGenerate(WorkerResults)
    \/ Yield

SpecWorker == WorkerInit /\ [][WorkerNext]_vars

----------------------------------------------------------------------------
(* auto_search calls served one at a time, between a2a sends of other clients *)

\* a2a clients send while fewer than MaxRunMsgs message ids have been issued
MaxRunMsgs == 1

\* the number of calls (auto_search, set_profile) a thread serves
MaxRuns == 1

RunIds == {"u1", "u2", "u3"}

\* payloads the a2a clients send: a request, a request whose from_user_id is a
\* list, and a response nobody asked for
RunPayloads ==
    << PlainRequest,
       RequestPayload(<<"u2">>, "Q"),
       ResponseWith(Answer(<<Product("p2")>>, "s")) >>

\* a result of the documented shape (freigent_real_json.py:83-87): an object
\* whose "products" is a list of objects
Documented(result) ==
    IF ~IsDict(result) THEN FALSE
    ELSE LET products == JsonGet(result, "products", <<>>) IN
         IF ~IsList(products) THEN FALSE
         ELSE \A k \in DOMAIN products : IsDict(products[k])

\* answers of the language model that have the documented shape, possibly the
\* fallback's empty list
RunResults == SelectSeq(LLMResults, Documented)

RunInit ==
    /\ FreshHub
    /\ profiles \in { [u \in S |-> Profile("n1", "p1")] : S \in SUBSET RunIds }
    /\ dbAgents \in SUBSET DOMAIN profiles

\* (payloads: what the a2a clients send; results: what the language model
\* answers; both listed)
RunStep(payloads, results) ==
    \/ \E a \in RunIds, b \in RunIds, p \in DOMAIN payloads :
         nextId <= MaxRunMsgs /\ A2ASend(a, b, payloads[p])
    \/ \E u \in RunIds, q \in Queries : run.calls < MaxRuns /\ AutoSearch(u, q)
    \/ Step(results)

RunNext == RunStep(RunPayloads, RunResults)

SpecRun == RunInit /\ [][RunNext]_vars

\* the same, with a2a clients that send nothing but recommendation requests
RequestPayloads ==
    LET IsRequestPayload(p) == EqualsStr(Item(p, "type"), "recommendation_request") IN
    SelectSeq(RunPayloads, IsRequestPayload)

RunRequestsNext == RunStep(RequestPayloads, RunResults)

SpecRunRequests == RunInit /\ [][RunRequestsNext]_vars

----------------------------------------------------------------------------
(* auto_search with every kind of message in the base inbox and every kind *)
(* of answer of the language model                                         *)

\* a2a clients send while fewer than MaxFanInMsgs message ids have been issued
MaxFanInMsgs == 2

FanInSenders == {"u3"}

\* payloads the a2a clients send: responses with a result dict, with a result
\* whose product is no dict, with a result that is no dict (a string, a list),
\* with the empty dict as result and without result, an error, a request whose
\* from_user_id is a list, and a message of another type
FanInPayloads ==
    << ResponseWith(Answer(<<Product("p2")>>, "s")),
       RequestPayload(<<"u2">>, "Q"),
       ResponseWith(Answer(<<"p3">>, "s")),
       ResponseWith("r"),
       ResponseWith(<<>>),
       ResponseWith(EmptyDict),
       Dict(<< <<"type", "recommendation_response">>, <<"query", "Q">> >>),
       Dict(<< <<"type", "recommendation_error">>, <<"reason", "r">> >>),
       Note >>

\* answers of the language model: a result dict with a product dict, one with a
\* product that is no dict, or a JSON string
FanInResults == << LLMResults[1], LLMResults[4], LLMResults[6] >>

FanInNext ==
    \/ \E a \in FanInSenders, b \in RunIds, p \in DOMAIN FanInPayloads :
         nextId <= MaxFanInMsgs /\ A2ASend(a, b, FanInPayloads[p])
    \/ \E u \in RunIds, q \in Queries : run.calls < MaxRuns /\ AutoSearch(u, q)
    \/ Step(FanInResults)

SpecRunFanIn == RunInit /\ [][FanInNext]_vars

----------------------------------------------------------------------------
(* auto_search after a2a clients have filled a helper's inbox *)

\* one answer of the language model is enough to tell the replies apart
RunsResults == << LLMResults[1] >>

\* a2a clients send while fewer than MaxBacklog message ids have been issued
MaxBacklog == 10

\* the agent whose inbox the a2a clients fill
BacklogPeers == {"u2"}

BacklogSenders == {"u3"}

BacklogPayloads == { p \in HubPayloads : EqualsStr(Item(p, "type"), "note") }

BacklogNext ==
    \/ \E a \in BacklogSenders, b \in BacklogPeers, p \in BacklogPayloads :
         run.calls = 0 /\ nextId <= MaxBacklog /\ A2ASend(a, b, p)
    \/ \E u \in RunIds, q \in Queries : run.calls < MaxRuns /\ AutoSearch(u, q)
    \/ Step(RunsResults)

SpecRunBacklog == RunInit /\ [][BacklogNext]_vars

----------------------------------------------------------------------------
(* auto_search while rows of the profiles table disappear, after a2a        *)
(* clients have filled a helper's inbox. The SQLite file is shared with    *)
(* other processes (DB_PATH, line 23); no code of this server deletes a    *)
(* profile.                                                                *)

\* DELETE FROM profiles WHERE user_id = ..., by another process
Without(profs, user_id) == [k \in DOMAIN profs \ {user_id} |-> profs[k]]

\* the call r has discovered helper user_id and not yet begun its worker call
Awaits(r, user_id) ==
    IF r.pc = "idle" THEN FALSE
    ELSE IF r.op # "auto_search" THEN FALSE
    ELSE \E i \in DOMAIN r.helper_ids :
           /\ r.helper_ids[i] = user_id
           /\ \/ r.pc \in {"reg_load", "register", "send"}
              \/ r.pc = "worker" /\ i > r.i

\* a row of profiles is deleted, at any moment
ProfileVanishes(user_id) ==
    /\ user_id \in DOMAIN profiles
    /\ profiles' = Without(profiles, user_id)
    /\ run' = IF Awaits(run, user_id) THEN [run EXCEPT !.gone = @ \cup {user_id}] ELSE run
    /\ UNCHANGED <<agents, inboxes, nextId, dbAgents, ret, threads, hist>>

\* payloads the a2a clients send to the peer before the run: messages of another
\* type, and as the first message possibly a request whose from_user_id is a list
VanishPayloads ==
    << Note,
       RequestPayload(<<"u2">>, "Q") >>

VanishNext ==
    \/ \E a \in BacklogSenders, b \in BacklogPeers, p \in DOMAIN VanishPayloads :
         /\ run.calls = 0
         /\ nextId <= (IF p = 1 THEN MaxBacklog ELSE 1)
         /\ A2ASend(a, b, VanishPayloads[p])
    \/ \E u \in RunIds, q \in Queries : run.calls < MaxRuns /\ AutoSearch(u, q)
    \/ Step(RunsResults)
    \/ \E u \in RunIds : ProfileVanishes(u)

SpecRunVanish == RunInit /\ [][VanishNext]_vars

----------------------------------------------------------------------------
(* Two pool threads that serve auto_search and POST /freigent/{id}/profile  *)
(* at once, while the other server (friegent_http_api_multi.py, on the same *)
(* SQLite file) serves POST /api/profile. The variable run holds the call   *)
(* of the thread that is scheduled, threads the call of the thread that     *)
(* waits; a thread may be descheduled between any two statements. No a2a    *)
(* client sends anything.                                                   *)

\* friegent_http_api_multi.py, upsert_profile (POST /api/profile): the other
\* server writes the profiles row, and no agents row
UpsertProfile(user_id, name, personality) ==
    /\ profiles' = db_upsert_profile(profiles, user_id, Profile(name, personality))
    /\ UNCHANGED <<agents, inboxes, nextId, dbAgents, ret, run, threads, hist>>

\* no waiting call has base user_id
OtherBase(user_id) ==
    \A t \in DOMAIN threads :
        IF threads[t].pc = "idle" THEN TRUE
        ELSE IF threads[t].op # "auto_search" THEN TRUE
        ELSE threads[t].user_id # user_id

\* the profiles the two servers are asked to store
RunsFields == { <<"n1", "p1">> }

RunsNext ==
    \/ \E u \in RunIds, q \in Queries :
         run.calls < MaxRuns /\ OtherBase(u) /\ AutoSearch(u, q)
    \/ \E u \in RunIds, f \in RunsFields : run.calls < MaxRuns /\ SetProfile(u, f[1], f[2])
    \/ SetProfileAgent
    \/ \E u \in RunIds, f \in RunsFields : UpsertProfile(u, f[1], f[2])
    \/ Step(RunsResults)
    \/ Yield

SpecRuns == RunInit /\ [][RunsNext]_vars

----------------------------------------------------------------------------
(* Claims about the hub *)

\* C1: a clearing get_inbox returns exactly the messages sent to that agent since
\* its last clearing receive, in send order, and a get_inbox that immediately
\* follows a clearing one on the same id returns the empty sequence.
C1_DrainReturnsSendsInOrder ==
    [][ /\ (ret'.op = "get_inbox" /\ ret'.clear)
            => ret'.result = hist.sentSince[ret'.agent_id]
        /\ (ret.op = "get_inbox" /\ ret.clear /\ ret'.op = "get_inbox"
                /\ ret'.agent_id = ret.agent_id)
            => ret'.result = <<>> ]_vars

\* a clearing receive has just returned two messages, sent one after the other
C1_Witness ==
    /\ ret.op = "get_inbox" /\ ret.clear
    /\ Len(ret.result) >= 2
    /\ ret.result[1].message_id < ret.result[2].message_id
    /\ ret.result[1].payload # ret.result[2].payload

\* C2: no message is returned by two clearing receives (nor twice by one), and a
\* clearing receive on an agent that was drained before and got no send since
\* then returns the empty sequence.
C2_AtMostOnceDelivery ==
    [][ (ret'.op = "get_inbox" /\ ret'.clear)
        => /\ MsgIds(ret'.result) \cap hist.drained = {}
           /\ Cardinality(MsgIds(ret'.result)) = Len(ret'.result)
           /\ (ret'.agent_id \in hist.cleared /\ hist.sentSince[ret'.agent_id] = <<>>)
                => ret'.result = <<>> ]_vars

\* a clearing receive returned new messages on an agent whose earlier clearing
\* receive had returned other messages
C2_Witness ==
    /\ ret.op = "get_inbox" /\ ret.clear /\ ret.result # <<>>
    /\ \E m \in hist.drained \ MsgIds(ret.result) : m < ret.result[1].message_id
    /\ \A i \in DOMAIN ret.result : ret.result[i].to_agent_id = ret.agent_id

\* C10: every registered id has exactly one directory entry, and get_agent
\* returns the fields of its latest registration.
C10_RegisterIdempotentUpsert ==
    /\ \A a \in DOMAIN hist.latest :
          /\ get_agent(agents, a) = hist.latest[a]
          /\ Cardinality({ i \in DOMAIN agents : agents[i].agent_id = a }) = 1
    /\ Len(agents) = Cardinality(DOMAIN hist.latest)

\* an id was registered again with different fields, next to another registered id
C10_Witness ==
    /\ hist.rereg # {}
    /\ Len(agents) = 2
    /\ ret.op = "register_agent" /\ ret.agent_id \in hist.rereg

\* C11: a send to a recipient that has no inbox and no directory entry creates
\* the inbox, stores the message in it, returns the stored message, and leaves
\* the directory without an entry for the recipient.
C11_SendToUnknownRecipient ==
    [][ (nextId' = nextId + 1 /\ ret'.op = "send_message"
            /\ ret'.agent_id \notin DOMAIN inboxes
            /\ IsNone(get_agent(agents, ret'.agent_id)))
        => /\ ret'.agent_id \in DOMAIN inboxes'
           /\ inboxes'[ret'.agent_id] = <<ret'.result>>
           /\ ret'.result.to_agent_id = ret'.agent_id
           /\ ret'.result.message_id = nextId
           /\ IsNone(get_agent(agents', ret'.agent_id))
           /\ agents' = agents ]_vars

\* a send has just created the inbox of an id that is not in the directory
C11_Witness ==
    /\ ret.op = "send_message"
    /\ ret.agent_id \notin DOMAIN hist.latest
    /\ ret.agent_id \notin hist.cleared
    /\ inboxes[ret.agent_id] = <<ret.result>>
    /\ IsNone(get_agent(agents, ret.agent_id))

\* C12: get_inbox on an id that was never registered and never sent to returns
\* the empty sequence, with clear or without, and a send to an id that was only
\* ever read that way puts its message in that id's inbox.
C12_UnknownInboxReadsEmpty ==
    [][ /\ (ret'.op = "get_inbox" /\ ret'.agent_id \notin DOMAIN inboxes)
            => ret'.result = <<>>
        /\ (nextId' = nextId + 1 /\ ret'.op = "send_message"
                /\ ret.op = "get_inbox" /\ ret.agent_id = ret'.agent_id
                /\ ret'.agent_id \notin DOMAIN hist.latest
                /\ hist.sentSince[ret'.agent_id] = <<>> /\ hist.drained = {})
            => /\ ret'.agent_id \in DOMAIN inboxes'
               /\ inboxes'[ret'.agent_id] = <<ret'.result>> ]_vars

\* a message sent to an unregistered id, right after that id's inbox was read
\* with clear and nothing had ever been sent to it, is in its inbox
C12_Witness ==
    /\ ret.op = "send_message"
    /\ ret.agent_id \notin DOMAIN hist.latest
    /\ ret.agent_id \in hist.cleared /\ hist.drained = {}
    /\ hist.sentSince[ret.agent_id] = <<ret.result>>
    /\ inboxes[ret.agent_id] = <<ret.result>>

\* C13: list_agents returns the registered ids in the order of their first
\* registration; registering an id again changes its fields, not its position.
C13_ListInFirstRegistrationOrder ==
    /\ [i \in DOMAIN list_agents(agents) |-> list_agents(agents)[i].agent_id] = hist.order
    /\ \A i \in DOMAIN list_agents(agents) :
          list_agents(agents)[i] = hist.latest[hist.order[i]]

\* the id registered first was registered again with other fields, after a
\* second id had been registered
C13_Witness ==
    /\ Len(hist.order) = 2
    /\ ret.op = "register_agent" /\ ret.agent_id = hist.order[1]
    /\ ret.agent_id \in hist.rereg
    /\ list_agents(agents)[1] = ret.result

\* the agent ids in the directory
DirectoryIds(ags) == { ags[i].agent_id : i \in DOMAIN ags }

\* C27: register_agent leaves every existing inbox as it is, the registered id's
\* own included (same messages, same order), adds at most the registered id's
\* inbox, and leaves every other agent's directory entry as it is.
C27_RegisterKeepsMailboxes ==
    [][ ret'.op = "register_agent"
        => /\ \A a \in DOMAIN inboxes : a \in DOMAIN inboxes' /\ inboxes'[a] = inboxes[a]
           /\ DOMAIN inboxes' = DOMAIN inboxes \cup {ret'.agent_id}
           /\ \A a \in DirectoryIds(agents) \ {ret'.agent_id} :
                get_agent(agents', a) = get_agent(agents, a)
           /\ DirectoryIds(agents') = DirectoryIds(agents) \cup {ret'.agent_id} ]_vars

\* an id with two pending messages was registered again with other fields, next
\* to another registered agent
C27_Witness ==
    /\ ret.op = "register_agent" /\ ret.agent_id \in hist.rereg
    /\ Len(inboxes[ret.agent_id]) = 2
    /\ inboxes[ret.agent_id] = hist.sentSince[ret.agent_id]
    /\ Len(agents) = 2

\* C28: send_message appends exactly one message, the one it returns, at the end
\* of the recipient's inbox and changes no other inbox and no directory entry;
\* every message stored in the inbox of an agent has that agent as to_agent_id.
C28_SendTouchesRecipientOnly ==
    /\ [][ (nextId' = nextId + 1 /\ ret'.op = "send_message")
            => /\ inboxes'[ret'.agent_id]
                    = Append(get_inbox(inboxes, ret'.agent_id), ret'.result)
               /\ ret'.result.to_agent_id = ret'.agent_id
               /\ DOMAIN inboxes' = DOMAIN inboxes \cup {ret'.agent_id}
               /\ \A a \in DOMAIN inboxes \ {ret'.agent_id} : inboxes'[a] = inboxes[a]
               /\ agents' = agents ]_vars
    /\ [](\A a \in DOMAIN inboxes : \A k \in DOMAIN inboxes[a] :
            inboxes[a][k].to_agent_id = a)

\* a send from u1 to u2 came after a message that was waiting in u1's inbox and
\* one in u2's
C28_Witness ==
    /\ ret.op = "send_message" /\ ret.result.from_agent_id # ret.agent_id
    /\ Len(inboxes[ret.agent_id]) = 2
    /\ inboxes[ret.agent_id][2] = ret.result
    /\ Len(get_inbox(inboxes, ret.result.from_agent_id)) = 1

\* C29: every agent id in the directory has an inbox, and no step removes a
\* directory entry or an inbox.
C29_DirectoryAndMailboxesOnlyGrow ==
    /\ [](DirectoryIds(agents) \subseteq DOMAIN inboxes)
    /\ [][ /\ DOMAIN inboxes \subseteq DOMAIN inboxes'
           /\ DirectoryIds(agents) \subseteq DirectoryIds(agents')
           /\ Len(agents') >= Len(agents) ]_vars

\* a registered agent's inbox has just been drained of its messages and is
\* still there, empty, as is the inbox of an id that is not registered
C29_Witness ==
    /\ ret.op = "get_inbox" /\ ret.clear /\ ret.result # <<>>
    /\ ret.agent_id \in DirectoryIds(agents)
    /\ inboxes[ret.agent_id] = <<>>
    /\ \E a \in DOMAIN inboxes \ DirectoryIds(agents) : a \in hist.cleared

\* C30: get_inbox without clear returns the inbox content in order, which is what
\* was sent to the agent since its last clearing receive, and changes neither
\* inboxes nor directory; a receive on the same agent right after it, clearing or
\* not, returns the same sequence.
C30_PeekLeavesMailbox ==
    [][ /\ (ret'.op = "get_inbox" /\ ~ret'.clear)
            => /\ ret'.result = get_inbox(inboxes, ret'.agent_id)
               /\ ret'.result = hist.sentSince[ret'.agent_id]
               /\ inboxes' = inboxes
               /\ agents' = agents
        /\ (ret.op = "get_inbox" /\ ~ret.clear /\ ret'.op = "get_inbox"
                /\ ret'.agent_id = ret.agent_id)
            => ret'.result = ret.result ]_vars

\* a receive without clear returned two messages, which are still in the inbox
C30_Witness ==
    /\ ret.op = "get_inbox" /\ ~ret.clear
    /\ Len(ret.result) = 2
    /\ inboxes[ret.agent_id] = ret.result
    /\ ret.agent_id \notin hist.cleared

----------------------------------------------------------------------------
(* Claims about the hub called from several threads *)

\* thread t executes a statement in this step
Stepped(t) ==
    /\ t \in DOMAIN threads
    /\ IF t \in DOMAIN threads' THEN threads'[t] # threads[t] ELSE TRUE

\* C14: two interleaved clearing get_inbox calls on one mailbox partition its
\* messages: a clearing get_inbox returns only messages sent to that agent, and
\* none that another clearing get_inbox has returned.
C14_InterleavedDrainsPartition ==
    [][ \A t \in ThreadIds :
          (At(t, "get_inbox", "clear") /\ Stepped(t))
          => /\ MsgIds(ret'.result) \cap hist.drained = {}
             /\ \A i \in DOMAIN ret'.result : ret'.result[i].to_agent_id = ret'.agent_id ]_vars

\* C15: a send that interleaves with a clearing get_inbox on the same agent is
\* not lost: every message in the mailbox when the get_inbox empties it is among
\* the messages that get_inbox returns.
C15_SendDuringDrainNotLost ==
    [][ \A t \in ThreadIds :
          (At(t, "get_inbox", "clear") /\ Stepped(t))
          => Range(get_inbox(inboxes, threads[t].agent_id)) \subseteq Range(ret'.result) ]_vars

\* C16: the lazy creation of a mailbox loses no send: when send_message or
\* register_agent stores the empty list it found missing, the id's mailbox
\* holds no message.
C16_LazyCreationLosesNoSend ==
    [][ \A t \in ThreadIds :
          ((At(t, "send_message", "create") \/ At(t, "register_agent", "create")) /\ Stepped(t))
          => LET a == IF threads[t].op = "send_message" THEN threads[t].to_agent_id
                      ELSE threads[t].agent_id
             IN  get_inbox(inboxes, a) = <<>> ]_vars

----------------------------------------------------------------------------
(* Claims about the worker. They are stated for the step in which a call of *)
(* process_recommendation_requests_for_agent ends, by returning its list    *)
(* (ret'.status = "returned", ret'.result the list) or by the exception of  *)
(* line 355: ret'.sent are the messages hub.send_message returned to the    *)
(* call, ret'.processed its list processed at that moment, and inboxes' the *)
(* inboxes. What a claim says about the inboxes is stated for a call that   *)
(* ran alone (ret'.alone): while the call is descheduled, other calls drain *)
(* and fill the same inboxes.                                               *)

\* the scheduled thread's worker call ends in this step
ProcessEnds ==
    /\ IF run.pc = "idle" THEN FALSE ELSE run.op = "process"
    /\ run'.pc = "idle"
    /\ threads' = threads

\* the scheduled thread's worker call returns in this step
ProcessReturns == ProcessEnds /\ ret'.status = "returned"

\* the messages a process call examined: those of msgs[:max_messages] the loop
\* came to
Examined(r) == SubSeq(SliceTo(r.drained, r.max_messages), 1, r.reached)

IsRequest(m) == EqualsStr(MsgType(m), "recommendation_request")

\* the profile id of a request: payload.from_user_id if given, else the sender
ResolvedId(m) ==
    IF HasKey(m.payload, "from_user_id") THEN Item(m.payload, "from_user_id")
    ELSE m.from_agent_id

\* a profile is stored for the id (none is for a list, an object or null)
Stored(id) ==
    IF SqlRaises(id) THEN FALSE ELSE ~IsNone(db_load_profile(profiles, id))

\* the request's profile exists
HasProfile(m) == Stored(ResolvedId(m))

\* the positions in r.sent of the messages of type t sent in answer to message m
SentFor(r, m, t) ==
    { k \in DOMAIN r.sent :
        /\ JsonGet(r.sent[k].payload, "type", "None") = t
        /\ JsonGet(r.sent[k].payload, "original_message_id", 0) = m.message_id }

\* the positions of inbox a holding a message of type t that the call r sent in
\* answer to message m
RepliesIn(a, r, m, t) ==
    LET box == Get(inboxes, a, <<>>) IN
    { k \in DOMAIN box :
        /\ box[k].message_id >= r.before
        /\ JsonGet(box[k].payload, "type", "None") = t
        /\ JsonGet(box[k].payload, "original_message_id", 0) = m.message_id }

\* the outcomes process recorded for message m
OutcomesOf(r, m) ==
    { j \in DOMAIN r.processed : Item(r.processed[j], "request_message_id") = m.message_id }

\* message msg is one of the messages the call r sent
SentBy(r, msg) == \E j \in DOMAIN r.sent : SameValue(r.sent[j], msg)

\* what C3 says of the call that ended with ret
C3_Answered ==
    \A i \in DOMAIN Examined(ret) :
      LET m == Examined(ret)[i] IN
      (IsRequest(m) /\ HasProfile(m)) =>
        /\ Cardinality(OutcomesOf(ret, m)) = 1
        /\ \A j \in OutcomesOf(ret, m) :
             /\ Item(ret.processed[j], "status") = "ok"
             /\ Item(ret.processed[j], "sent_to") = m.from_agent_id
        /\ Cardinality(SentFor(ret, m, "recommendation_response")) = 1
        /\ \A k \in SentFor(ret, m, "recommendation_response") :
             /\ ret.sent[k].to_agent_id = m.from_agent_id
             /\ ret.sent[k].from_agent_id = ret.agent_id
             /\ ret.sent[k].message_id >= ret.before
        /\ ret.alone =>
             /\ Cardinality(RepliesIn(m.from_agent_id, ret, m, "recommendation_response")) = 1
             /\ \A a \in DOMAIN inboxes \ {m.from_agent_id} :
                  RepliesIn(a, ret, m, "recommendation_response") = {}
             /\ \A k \in RepliesIn(m.from_agent_id, ret, m, "recommendation_response") :
                  SentBy(ret, inboxes[m.from_agent_id][k])

\* C3: when a process call ends, every recommendation_request it examined whose
\* profile exists has exactly one outcome in its list, of status ok, and process
\* has sent exactly one recommendation_response carrying its message_id, a new
\* message addressed to the request's from_agent_id; after a call that ran alone
\* that message is in the inbox of from_agent_id, once, and in no other inbox.
C3_RequestWithProfileAnswered == [][ProcessEnds => C3_Answered']_vars

\* process answered two requests of another agent; while it waited for the second
\* answer of the language model, another worker call drained its first response
C3_Witness ==
    /\ ret.op = "process" /\ ~ret.alone
    /\ Len(ret.sent) = 2
    /\ \A k \in DOMAIN ret.sent :
         /\ Item(ret.sent[k].payload, "type") = "recommendation_response"
         /\ ret.sent[k].to_agent_id # ret.agent_id
    /\ ret.sent[1].to_agent_id = ret.sent[2].to_agent_id
    /\ Len(inboxes[ret.sent[2].to_agent_id]) = 1
    /\ inboxes[ret.sent[2].to_agent_id][1].message_id = ret.sent[2].message_id

\* what C4 says of the call that ended with ret
C4_Refused ==
    \A i \in DOMAIN Examined(ret) :
      LET m == Examined(ret)[i] IN
      (IsRequest(m) /\ ~HasProfile(m)) =>
        /\ Cardinality(OutcomesOf(ret, m)) = 1
        /\ \A j \in OutcomesOf(ret, m) : Item(ret.processed[j], "status") = "error"
        /\ Cardinality(SentFor(ret, m, "recommendation_error")) = 1
        /\ SentFor(ret, m, "recommendation_response") = {}
        /\ \A k \in SentFor(ret, m, "recommendation_error") :
             ret.sent[k].to_agent_id = m.from_agent_id
        /\ ret.alone =>
             /\ Cardinality(RepliesIn(m.from_agent_id, ret, m, "recommendation_error")) = 1
             /\ \A a \in DOMAIN inboxes :
                  /\ RepliesIn(a, ret, m, "recommendation_response") = {}
                  /\ a # m.from_agent_id => RepliesIn(a, ret, m, "recommendation_error") = {}

\* C4 as claimed: when a process call ends, every recommendation_request it
\* examined whose profile is absent has exactly one outcome, of status error, and
\* process has sent exactly one recommendation_error carrying its message_id, to
\* the request's from_agent_id, and no recommendation_response for it.
C4_RequestWithoutProfileRefused == [][ProcessEnds => C4_Refused']_vars

\* the processed agent's inbox is empty
C5_Empty == inboxes[ret.agent_id] = <<>>

\* C5 as claimed: when process returns, the processed agent's inbox is empty
\* (also for a call that ran alone).
C5_InboxEmptyAfterProcess == [][(ProcessReturns /\ ret'.alone) => C5_Empty']_vars

\* what the amended C5 says of the call that returned ret
C5_OnlyRepliesToSelf ==
    LET FromSelf(m) == IsRequest(m) /\ m.from_agent_id = ret.agent_id
        own == SelectSeq(Examined(ret), FromSelf)
        box == inboxes[ret.agent_id]
    IN  /\ Len(box) = Len(own)
        /\ \A k \in DOMAIN box :
             /\ box[k].message_id >= ret.before
             /\ box[k].from_agent_id = ret.agent_id
             /\ JsonGet(box[k].payload, "type", "None")
                  \in {"recommendation_response", "recommendation_error"}
             /\ JsonGet(box[k].payload, "original_message_id", 0) = own[k].message_id

\* C5 as amended: when a process call that ran alone returns, the processed
\* agent's inbox holds exactly the replies to the examined requests that the agent
\* had sent to itself, one per such request and in their order, and nothing that
\* was in it before the call; it is empty when no examined request came from the
\* agent itself.
C5_InboxHoldsOnlyRepliesToSelf ==
    [][(ProcessReturns /\ ret'.alone) => C5_OnlyRepliesToSelf']_vars

\* process drained an inbox that held a request from the agent itself and a message
\* from another agent
C5_Witness ==
    /\ ret.op = "process" /\ ret.status = "returned" /\ ret.alone
    /\ inboxes[ret.agent_id] # <<>>
    /\ SameValue(inboxes[ret.agent_id], ret.sent)
    /\ \E i \in DOMAIN ret.drained : ret.drained[i].from_agent_id # ret.agent_id

\* the positions <<a, k>> of the messages that the call r put into the inboxes
NewMessages(r) ==
    { <<a, k>> \in (DOMAIN inboxes) \X (1..nextId) :
        k \in DOMAIN inboxes[a] /\ inboxes[a][k].message_id >= r.before }

\* what C21 says of the call that ended with ret
C21_Capped ==
    LET n == Len(ret.drained)
        cap == Min(n, ret.max_messages)
    IN  /\ ret.status = "returned"
        /\ Len(ret.result) = cap
        /\ \A j \in 1..cap :
             Item(ret.result[j], "request_message_id") = ret.drained[j].message_id
        /\ \A i \in (cap + 1)..n :
             /\ OutcomesOf(ret, ret.drained[i]) = {}
             /\ \A k \in DOMAIN ret.sent :
                  JsonGet(ret.sent[k].payload, "original_message_id", 0)
                     # ret.drained[i].message_id
        /\ \A i \in 1..n : \A a \in DOMAIN inboxes :
             ret.drained[i].message_id \notin MsgIds(inboxes[a])
        /\ ret.alone =>
             \A k \in DOMAIN inboxes[ret.agent_id] :
                inboxes[ret.agent_id][k].message_id >= ret.before

\* C21 as claimed: process drains the whole inbox, examines the first
\* min(n, max_messages) of the n drained messages and returns one outcome per
\* examined message, in arrival order; a drained message beyond the cap has no
\* outcome, process sends no reply that refers to it, and no drained message is
\* in any inbox when process ends.
C21_ExcessDroppedNotRequeued == [][ProcessEnds => C21_Capped']_vars

\* what C22 says of the call that ended with ret
C22_OneSend ==
    LET requests == { i \in DOMAIN Examined(ret) : IsRequest(Examined(ret)[i]) }
        MsgAt(p) == inboxes[p[1]][p[2]]
        Answered(k) == JsonGet(ret.sent[k].payload, "original_message_id", 0)
    IN  /\ Len(ret.sent) <= Cardinality(requests)
        /\ \A k \in DOMAIN ret.sent :
             /\ ret.sent[k].from_agent_id = ret.agent_id
             /\ \E i \in requests : Answered(k) = Examined(ret)[i].message_id
             /\ \A j \in DOMAIN ret.sent : Answered(j) = Answered(k) => j = k
        /\ \A i \in DOMAIN Examined(ret) \ requests :
             /\ i \in DOMAIN ret.processed
             /\ Item(ret.processed[i], "status") = "ignored"
             /\ Item(ret.processed[i], "reason") = PyStr(MsgType(Examined(ret)[i]))
             /\ \A k \in DOMAIN ret.sent : Answered(k) # Examined(ret)[i].message_id
        /\ ret.alone =>
             /\ nextId - ret.before = Len(ret.sent)
             /\ Cardinality(NewMessages(ret)) = Len(ret.sent)
             /\ \A p \in NewMessages(ret) : SentBy(ret, MsgAt(p))

\* C22: process sends at most one message per recommendation_request it examined,
\* each a reply to such a request, and none for an examined message of another
\* type, whose outcome in its list is ignored; after a call that ran alone the
\* inboxes hold the messages it sent, once each, and no other new message.
C22_AtMostOneSendPerRequest == [][ProcessEnds => C22_OneSend']_vars

\* process examined a message of another type and a request, and sent one reply
C22_Witness ==
    /\ ret.op = "process" /\ ret.alone /\ Len(Examined(ret)) = 2
    /\ ~IsRequest(Examined(ret)[1]) /\ IsRequest(Examined(ret)[2])
    /\ Item(ret.processed[1], "status") = "ignored"
    /\ Len(ret.sent) = 1
    /\ Cardinality(NewMessages(ret)) = 1

\* what C25 says of the call that ended with ret
C25_ResolvedAndAddressed ==
    \A i \in DOMAIN Examined(ret) :
      LET m == Examined(ret)[i]
          id == ResolvedId(m)
          replies == { k \in DOMAIN ret.sent :
                         JsonGet(ret.sent[k].payload, "original_message_id", 0) = m.message_id }
      IN  IsRequest(m) =>
            /\ Cardinality(replies) = IF SqlRaises(id) THEN 0 ELSE 1
            /\ \A k \in replies :
                 LET reply == ret.sent[k] IN
                 /\ reply.to_agent_id = m.from_agent_id
                 /\ IF Stored(id)
                    THEN /\ Item(reply.payload, "type") = "recommendation_response"
                         /\ SameValue(Item(reply.payload, "profile_user_id"), id)
                    ELSE /\ Item(reply.payload, "type") = "recommendation_error"
                         /\ Item(reply.payload, "reason") = PyStr(id)
                 /\ ret.alone =>
                      /\ reply.message_id \in MsgIds(inboxes[m.from_agent_id])
                      /\ \A a \in DOMAIN inboxes \ {m.from_agent_id} :
                           reply.message_id \notin MsgIds(inboxes[a])

\* C25: the profile a request is decided on is the one of payload.from_user_id
\* if the request has one (a number names the profile stored under its decimal
\* text), else of from_agent_id: process sends a response naming that id if its
\* profile is stored, an error naming it if not, and every reply it sends is
\* addressed to the request's from_agent_id (after a call that ran alone it is
\* in that inbox and in no other). It sends one reply to every request it
\* examined, except that it ends without a reply at a request whose id is a list
\* or an object.
C25_ProfileIdAndReplyAddress == [][ProcessEnds => C25_ResolvedAndAddressed']_vars

\* a request sent by an agent without profile on behalf of another agent, whose
\* profile is stored, was answered with a response in the sender's inbox
C25_Witness ==
    /\ ret.op = "process" /\ ret.alone
    /\ \E i \in DOMAIN Examined(ret) :
         LET m == Examined(ret)[i] IN
         /\ IsRequest(m) /\ HasKey(m.payload, "from_user_id")
         /\ JsonKind(Item(m.payload, "from_user_id")) = "str"
         /\ Item(m.payload, "from_user_id") # m.from_agent_id
         /\ m.from_agent_id \notin DOMAIN profiles
         /\ m.from_agent_id # ret.agent_id
         /\ RepliesIn(m.from_agent_id, ret, m, "recommendation_response") # {}
         /\ Get(inboxes, Item(m.payload, "from_user_id"), <<>>) = <<>>

----------------------------------------------------------------------------
(* Claims about auto_search *)

\* an auto_search call has returned its AutoSearchResponse
Returned == ret.op = "auto_search" /\ ret.status = "200"

\* the scheduled thread serves an auto_search call that is past discovery
InRun ==
    IF run.pc = "idle" THEN FALSE
    ELSE /\ run.op = "auto_search"
         /\ run.pc \in {"reg_load", "register", "send", "worker", "fanin"}

\* the scheduled thread's auto_search call ends in this step
RunEnds == InRun /\ run'.pc = "idle" /\ threads' = threads

\* the scheduled thread's auto_search call returns in this step, from fan-in
RunReturns == InRun /\ run.pc = "fanin" /\ run'.pc = "idle" /\ threads' = threads

\* C6 as claimed: every HelperResult of a returned run comes from a
\* recommendation_response whose original_message_id is the message_id of a
\* request this run sent to a helper.
C6_HelperResultsAnswerThisRun ==
    Returned =>
      LET resp == SelectSeq(ret.incoming, IsResponse) IN
      /\ Len(ret.result.helper_results) = Len(resp)
      /\ \A k \in DOMAIN resp :
           /\ ret.result.helper_results[k].agent_id = resp[k].from_agent_id
           /\ JsonGet(resp[k].payload, "original_message_id", 0) \in MsgIds(ret.requests)

RECURSIVE ProductsInOrder(_)
ProductsInOrder(hrs) ==
    IF hrs = <<>> THEN <<>>
    ELSE Item(Head(hrs).result, "products") \o ProductsInOrder(Tail(hrs))

\* the run started with the base's and every helper's inbox empty
StartedEmpty ==
    \A a \in {ret.user_id} \cup Range(ret.result.helper_agent_ids) :
        Get(ret.before, a, <<>>) = <<>>

\* C7: a returned run that started with the base's and every helper's inbox empty
\* lists as helper_agent_ids the stored agents with a profile other than the base,
\* has one HelperResult per helper, in that order, each the result of the response
\* to the request this run sent to that helper, and merged_products is the base
\* products followed by each helper's products in that order, repeats included.
C7_EndToEndMerge ==
    (Returned /\ StartedEmpty) =>
      LET ids == ret.result.helper_agent_ids
          hrs == ret.result.helper_results
      IN  /\ ids \in Perms({ a \in dbAgents \cap DOMAIN profiles : a # ret.user_id })
          /\ Len(hrs) = Len(ids)
          /\ Len(ret.requests) = Len(ids)
          /\ \A i \in DOMAIN ids :
               /\ hrs[i].agent_id = ids[i]
               /\ ret.requests[i].to_agent_id = ids[i]
               /\ \E k \in DOMAIN ret.incoming :
                    /\ ret.incoming[k].from_agent_id = ids[i]
                    /\ Item(ret.incoming[k].payload, "type") = "recommendation_response"
                    /\ Item(ret.incoming[k].payload, "original_message_id")
                         = ret.requests[i].message_id
                    /\ Item(ret.incoming[k].payload, "result") = hrs[i].result
          /\ ret.result.merged_products
               = Item(ret.result.base_result, "products") \o ProductsInOrder(hrs)

\* a run with two helpers returned, the second helper repeating the base's product
C7_Witness ==
    /\ Returned /\ StartedEmpty
    /\ Len(ret.result.helper_agent_ids) = 2
    /\ Len(ret.result.merged_products) = 3
    /\ ret.result.merged_products[1] = ret.result.merged_products[3]
    /\ ret.result.merged_products[1] # ret.result.merged_products[2]

\* C17 as claimed: of two runs with different base ids served at once, the
\* threads switching between whole hub operations only, each returns what it
\* returns alone (one HelperResult per helper, in the order of helper_agent_ids,
\* each the result of the response to the request this run sent to that helper),
\* so no response to a run's request is consumed by the other.
C17_ConcurrentRunsIsolated ==
    (Returned /\ ~hist.torn) =>
      LET ids == ret.result.helper_agent_ids
          hrs == ret.result.helper_results
      IN  /\ Len(hrs) = Len(ids)
          /\ \A i \in DOMAIN ids :
               /\ i \in DOMAIN hrs /\ hrs[i].agent_id = ids[i]
               /\ \E k \in DOMAIN ret.incoming :
                    /\ ret.incoming[k].from_agent_id = ids[i]
                    /\ IsResponse(ret.incoming[k])
                    /\ Item(ret.incoming[k].payload, "original_message_id")
                         = ret.requests[i].message_id
                    /\ Item(ret.incoming[k].payload, "result") = hrs[i].result

\* C18 as claimed: within one run each helper's request is followed at once by
\* that helper's worker call, which completes before the request to the next
\* helper is sent: at most one helper has its request and not yet its worker call.
C18_SendThenDrainPerPeer ==
    InRun => Len(run.requests) <= Len(run.drains) + 1

\* C19 as claimed: whatever a helper's inbox held before the run, the helper's
\* worker call leaves in the base's inbox a reply (response or error) to the
\* request this run sent to that helper.
C19_DispatchAnswersOwnRequest ==
    (InRun /\ run.pc \in {"worker", "fanin"}) =>
      \A k \in DOMAIN run.drains :
        \E j \in DOMAIN get_inbox(inboxes, run.user_id) :
          LET m == get_inbox(inboxes, run.user_id)[j] IN
          /\ m.from_agent_id = run.drains[k]
          /\ JsonGet(m.payload, "type", "None")
               \in {"recommendation_response", "recommendation_error"}
          /\ JsonGet(m.payload, "original_message_id", 0) = run.requests[k].message_id

\* C20 as claimed: a helper whose profile was deleted after discovery and before
\* its worker call (ret.gone) has no HelperResult in the response, while it is
\* listed in helper_agent_ids.
C20_VanishedPeerContributesNothing ==
    Returned =>
      \A h \in ret.gone :
        /\ h \in Range(ret.result.helper_agent_ids)
        /\ \A k \in DOMAIN ret.result.helper_results :
             ret.result.helper_results[k].agent_id # h

\* the worker call of the run looks up the profile for a request this run sent
WorkerLoadsForRun ==
    /\ InRun /\ run.pc = "worker" /\ run.hub.op = "none" /\ run.w.pc = "load"
    /\ run' # run /\ profiles' = profiles /\ threads' = threads
    /\ Current(run.w).message_id \in MsgIds(run.requests)

\* C20, amended: a helper whose profile disappears after discovery is still
\* listed, still gets the request, and its worker call treats the request as any
\* other helper's: a request among the first RunMaxMessages messages the call
\* drained is answered to the base, on the base user's profile and not on the
\* helper's own (a response if the base user's profile is stored at that moment,
\* an error if not); a request behind them gets no reply. The returned run lists
\* every discovered helper, holds one reply to each request that was answered and
\* none to the others, has one HelperResult per response, in inbox order, and
\* merges the products of those results.
C20_VanishedPeerStillAnswers ==
    [][ /\ WorkerLoadsForRun =>
             /\ run'.w.pc = "generate" <=> run.user_id \in DOMAIN profiles
             /\ run'.w.pc = "reply" <=> run.user_id \notin DOMAIN profiles
             /\ run'.w.pc = "reply" =>
                  /\ run'.hub.to_agent_id = run.user_id
                  /\ Item(run'.hub.payload, "type") = "recommendation_error"
                  /\ Item(run'.hub.payload, "reason") = run.user_id
        /\ (RunReturns /\ ret'.status = "200") =>
             LET ids == ret'.result.helper_agent_ids
                 hrs == ret'.result.helper_results
                 incoming == ret'.incoming
                 Position(i) ==
                     { k \in DOMAIN run.drained[i] :
                         run.drained[i][k].message_id = run.requests[i].message_id }
                 Replies(i) ==
                     { k \in DOMAIN incoming :
                         /\ incoming[k].from_agent_id = ids[i]
                         /\ incoming[k].message_id > run.requests[Len(ids)].message_id
                         /\ JsonGet(incoming[k].payload, "original_message_id", 0)
                              = run.requests[i].message_id }
             IN  /\ ids = run.helper_ids
                 /\ run.gone \subseteq Range(ids)
                 /\ Len(run.requests) = Len(ids)
                 /\ Len(run.drained) = Len(ids)
                 /\ \A i \in DOMAIN ids :
                      /\ run.requests[i].to_agent_id = ids[i]
                      /\ Cardinality(Position(i)) = 1
                      /\ Cardinality(Replies(i))
                           = IF \A k \in Position(i) : k <= RunMaxMessages THEN 1 ELSE 0
                      /\ \A k \in Replies(i) :
                           /\ JsonGet(incoming[k].payload, "type", "None")
                                \in {"recommendation_response", "recommendation_error"}
                           /\ IsResponse(incoming[k]) =>
                                Item(incoming[k].payload, "profile_user_id") = run.user_id
                 /\ Len(hrs) = Len(Responses(incoming))
                 /\ \A k \in DOMAIN hrs :
                      /\ hrs[k].agent_id = Responses(incoming)[k].from_agent_id
                      /\ hrs[k].result = Item(Responses(incoming)[k].payload, "result")
                 /\ ret'.result.merged_products
                      = Item(ret'.result.base_result, "products") \o ProductsInOrder(hrs) ]_vars

\* a run with two helpers returned both helpers' results although the profile of
\* the first helper was deleted before its worker call and that helper was never
\* entered in the directory
C20_Witness ==
    /\ Returned
    /\ Len(ret.result.helper_agent_ids) = 2
    /\ ret.gone = {ret.result.helper_agent_ids[1]}
    /\ IsNone(get_agent(agents, ret.result.helper_agent_ids[1]))
    /\ Len(ret.result.helper_results) = 2
    /\ ret.result.helper_results[1].agent_id = ret.result.helper_agent_ids[1]
    /\ Len(ret.result.merged_products) = 3

\* the products of the responses resp, in order; a response without result or
\* without products has none
RECURSIVE ResponseProducts(_)
ResponseProducts(resp) ==
    IF resp = <<>> THEN <<>>
    ELSE JsonGet(JsonGet(Head(resp).payload, "result", EmptyDict), "products", <<>>)
            \o ResponseProducts(Tail(resp))

\* a result as documented: a dict whose products, if a list, are dicts
WellFormed(result) ==
    /\ IsDict(result)
    /\ \A k \in DOMAIN ProductsOf(result) : IsDict(ProductsOf(result)[k])

\* C23 as claimed: fan-in empties the base inbox and returns one HelperResult per
\* recommendation_response that was in it, in inbox order, with the sender as
\* agent_id and the response's result; messages of other types are left out of
\* helper_results and merged_products, and the run is not aborted (the base
\* result being as documented).
C23_FanInCollectsResponses ==
    [][ (RunReturns /\ WellFormed(run.base_result))
        => LET incoming == get_inbox(inboxes, run.user_id)
               resp == SelectSeq(incoming, IsResponse)
           IN  /\ get_inbox(inboxes', run.user_id) = <<>>
               /\ ret'.status = "200"
               /\ Len(ret'.result.helper_results) = Len(resp)
               /\ \A k \in DOMAIN resp :
                    /\ ret'.result.helper_results[k].agent_id = resp[k].from_agent_id
                    /\ SameValue(ret'.result.helper_results[k].result,
                                 JsonGet(resp[k].payload, "result", EmptyDict))
               /\ ret'.result.merged_products
                    = Item(ret'.result.base_result, "products") \o ResponseProducts(resp) ]_vars

\* how far a run has come: the loop it is in, then the pass of that loop
Progress(r) ==
    (CASE r.pc \in {"reg_load", "register"} -> 0 [] r.pc = "send" -> 1
       [] r.pc = "worker" -> 2 [] r.pc = "fanin" -> 3 [] OTHER -> 4)
      * (Cardinality(RunIds) + 1) + r.i

\* C24 as claimed: once the base profile is loaded, no step of the run takes it
\* back, and its last step returns a result object after every helper was sent
\* the request and had its worker call, whatever the helpers' outcomes and the
\* language model's answers were.
C24_RunEndsWithResult ==
    [][ /\ (InRun /\ run'.pc # "idle" /\ threads' = threads)
            => Progress(run') >= Progress(run)
        /\ RunEnds
            => /\ ret'.op = "auto_search" /\ ret'.status = "200"
               /\ "result" \in DOMAIN ret'
               /\ Len(run.requests) = Len(run.helper_ids)
               /\ run.drains = run.helper_ids ]_vars

\* the scheduled thread's auto_search call reads the helper ids in this step
Discovers ==
    /\ IF run.pc = "idle" THEN FALSE ELSE run.op = "auto_search" /\ run.pc = "discover"
    /\ run' # run /\ threads' = threads

\* C26: the helper ids a run discovers are the stored agents with a profile other
\* than the base, each once; a returned run lists exactly them, in that order, as
\* helper_agent_ids and in its summary, whether they answered or not, and the
\* summary's helper count is the number of HelperResults.
C26_ListedPeersAndHelperCount ==
    [][ /\ Discovers
            => /\ Range(run'.helper_ids)
                    = { a \in dbAgents \cap DOMAIN profiles : a # run.user_id }
               /\ Len(run'.helper_ids) = Cardinality(Range(run'.helper_ids))
        /\ (RunReturns /\ ret'.status = "200")
            => /\ ret'.result.helper_agent_ids = run.helper_ids
               /\ ret'.result.merged_summary_for_user.base = run.user_id
               /\ ret'.result.merged_summary_for_user.helper_count
                    = Len(ret'.result.helper_results)
               /\ ret'.result.merged_summary_for_user.helpers
                    = IF run.helper_ids = <<>> THEN <<"none">> ELSE run.helper_ids ]_vars

\* a run returned no HelperResult and helper count 0 while it lists the one helper
\* it discovered, whose worker call had dropped the request
C26_Witness ==
    /\ Returned
    /\ Len(ret.result.helper_agent_ids) = 1
    /\ ret.result.helper_results = <<>>
    /\ ret.result.merged_summary_for_user.helper_count = 0
    /\ ret.result.merged_summary_for_user.helpers = ret.result.helper_agent_ids
    /\ Len(ret.requests) = 1

\* C8 as claimed: a returned run with no helper ids has no helper results, the
\* base products as merged_products, and a summary that says 'none'.
C8_NoPeersNoHelpers ==
    (Returned /\ ret.result.helper_agent_ids = <<>>) =>
      /\ ret.result.helper_results = <<>>
      /\ ret.result.merged_products = Item(ret.result.base_result, "products")
      /\ ret.result.merged_summary_for_user.helpers = <<"none">>

\* the scheduled thread takes an auto_search call in this step
Called == run.pc = "idle" /\ run'.calls = run.calls + 1 /\ threads' = threads

\* C9: an auto_search call for a user without a stored profile ends at once with
\* HTTP 400 and no result object, and leaves the directory, the inboxes and the
\* message ids as they were.
C9_MissingBaseAborts ==
    [][ (Called /\ ret'.user_id \notin DOMAIN profiles)
        => /\ ret'.op = "auto_search" /\ ret'.status = "HTTP 400"
           /\ "result" \notin DOMAIN ret'
           /\ run'.pc = "idle"
           /\ agents' = agents /\ inboxes' = inboxes /\ nextId' = nextId ]_vars

\* a call was refused although other agents with profiles were stored and a
\* message was waiting in the caller's inbox
C9_Witness ==
    /\ ret.op = "auto_search" /\ ret.status = "HTTP 400"
    /\ dbAgents # {}
    /\ Get(inboxes, ret.user_id, <<>>) # <<>>
    /\ agents = <<>>

====
